---- MODULE Spec2Model ----
(***************************************************************************)
(* Excel reconciliation tool: composite-key builders, duplicate detector   *)
(* and cross-dataset matcher of src/lib/reconciliation.ts (array form),    *)
(* its streaming successor (src/unnamed/part_006) and the generic          *)
(* duplicate finder (src/unnamed/part_004).                                *)
(*                                                                         *)
(* A JavaScript string is a sequence of one-character strings, so that     *)
(* trim, toLowerCase, concatenation and join are computed, not assumed.    *)
(* A cell value is a tagged record (null, undefined, string, number).      *)
(* A row record is a function from column names to cell values; ColName   *)
(* gives the characters of a column name.                                  *)
(***************************************************************************)
EXTENDS Integers, Sequences, FiniteSets, TLC

VARIABLES
  \* ---- key builders applied to one pair of records
  kRec1, kRec2, kMaps, kParts1, kParts2, kKey1, kKey2, kAll1, kAll2, kPc,
  \* ---- cross-dataset matcher (compareUniqueItemStreams / compareFilesWithMappings)
  mForm, mData1, mData2, mMaps, mPc, mPos1, mPos2, file2Map, allFile2UniqueItems,
  matched, inFile1Only, inFile2Only,
  \* ---- duplicate detector (four entry points)
  dEntry, dData, dOpts, dPc, dPos, seen, duplicates, duplicateGroups, uniqueItems,
  processedCount, chunkIteration, dEmptyChunks, chunkResults,
  \* ---- one run of processFiles and the file worker it talks to
  rForm, rMaps, rSheets, rWorkerTags, rPc, rErr, rProgress, rListener, rStream,
  rValidated, rRead, rDeduped, rUnique, rMapped, rCompared, rIter, rFile2Chunks,
  wInbox, wPc, wReq, wSent, wOut,
  \* ---- one call of processArrayInChunks
  cArray, cChunkSize, cOnProgress, cPc, cI, cResult, cCalls, cProgress,
  \* ---- one export (exportToExcel / exportCategoryToExcel)
  xForm, xCategory, xData, xPc, xNext, xSheets, xResult, xProgress,
  \* ---- one call of processMatchedItem
  fItem, fOut, fPc,
  \* ---- one call of processSheetData
  sValid, sNulls, sRowSize, sPc, sI, errorCount, sFailed, sSheets,
  \* ---- one call of splitLargeExport
  pData, pPc, pKey, pChunk, results, currentWorkbook, processedSheets, pProgress,
  \* ---- calls of getSheetDataStreamed on the shared file worker
  qCalls, qScript, qPc, qSent, qWire, messageQueue, qListeners, qYielded,
  \* ---- one run of processFiles over the rows of two sheets
  tForm, tRows, tMaps, tPc, tPos, tDup, tCount, tCmp, summary

kvars == <<kRec1, kRec2, kMaps, kParts1, kParts2, kKey1, kKey2, kAll1, kAll2, kPc>>
mvars == <<mForm, mData1, mData2, mMaps, mPc, mPos1, mPos2, file2Map,
           allFile2UniqueItems, matched, inFile1Only, inFile2Only>>
dvars == <<dEntry, dData, dOpts, dPc, dPos, seen, duplicates, duplicateGroups,
           uniqueItems, processedCount, chunkIteration, dEmptyChunks, chunkResults>>
rvars == <<rForm, rMaps, rSheets, rWorkerTags, rPc, rErr, rProgress, rListener,
           rStream, rValidated, rRead, rDeduped, rUnique, rMapped, rCompared, rIter,
           rFile2Chunks, wInbox, wPc, wReq, wSent, wOut>>
cvars == <<cArray, cChunkSize, cOnProgress, cPc, cI, cResult, cCalls, cProgress>>
\* the variables of the operations modelled after processFiles
xvars == <<xForm, xCategory, xData, xPc, xNext, xSheets, xResult, xProgress>>
fvars == <<fItem, fOut, fPc>>
\* the variables of the operations modelled after the exports
svars == <<sValid, sNulls, sRowSize, sPc, sI, errorCount, sFailed, sSheets>>
pvars == <<pData, pPc, pKey, pChunk, results, currentWorkbook, processedSheets, pProgress>>
qvars == <<qCalls, qScript, qPc, qSent, qWire, messageQueue, qListeners, qYielded>>
tvars == <<tForm, tRows, tMaps, tPc, tPos, tDup, tCount, tCmp, summary>>
latevars == <<fvars, svars, pvars, qvars, tvars>>
\* the variables of the operations modelled before them
earlyvars == <<kvars, mvars, dvars, rvars, cvars, xvars>>
postvars == <<cvars, xvars, latevars>>
\* the variables of the operations modelled after the detector
restvars == <<rvars, postvars>>
vars == <<kvars, mvars, dvars, restvars>>

----------------------------------------------------------------------------
(* Bounds of the model                                                     *)

\* longest string drawn for a cell of the key-builder inputs
MaxStrLen == 2
\* most unique items per dataset handed to the matcher
MaxItems == 2
\* most rows of a dataset handed to the duplicate detector
MaxRows == 3
\* most empty chunks a data stream delivers
MaxEmptyChunks == 1
\* most items of the array handed to processArrayInChunks
MaxArrayLen == 3
\* largest chunk size handed to processArrayInChunks
MaxChunkSize == 3
\* most items of one category of the data handed to an export
MaxExportRows == 1
\* most null entries among the items handed to processSheetData
MaxNullItems == 1
\* most categories of the data handed to splitLargeExport, apart from the
\* two inputs with more categories than a workbook may hold sheets
MaxSplitKeys == 3
\* most dataChunk messages the worker posts for one call
MaxStreamChunks == 2

----------------------------------------------------------------------------
(* JavaScript strings and values                                           *)

\* UTF-16 code units of the characters used (Array.prototype.sort order)
CharCode(c) ==
  CASE c = " " -> 32
    [] c = "1" -> 49
    [] c = ":" -> 58
    [] c = "X" -> 88
    [] c = "_" -> 95
    [] c = "a" -> 97
    [] c = "b" -> 98
    [] c = "x" -> 120
    [] c = "|" -> 124

\* String.prototype.toLowerCase on one character
LowerChar(c) == IF c = "X" THEN "x" ELSE c

RECURSIVE ToLowerCase(_)
ToLowerCase(s) ==
  IF s = <<>> THEN <<>> ELSE <<LowerChar(Head(s))>> \o ToLowerCase(Tail(s))

RECURSIVE TrimStart(_)
TrimStart(s) == IF s # <<>> /\ Head(s) = " " THEN TrimStart(Tail(s)) ELSE s

RECURSIVE TrimEnd(_)
TrimEnd(s) ==
  IF s # <<>> /\ s[Len(s)] = " " THEN TrimEnd(SubSeq(s, 1, Len(s) - 1)) ELSE s

\* String.prototype.trim
Trim(s) == TrimEnd(TrimStart(s))

\* String.prototype.startsWith
StartsWith(s, c) == s # <<>> /\ Head(s) = c

\* Array.prototype.join
RECURSIVE Join(_, _)
Join(parts, sep) ==
  IF parts = <<>> THEN <<>>
  ELSE IF Len(parts) = 1 THEN parts[1]
  ELSE parts[1] \o sep \o Join(Tail(parts), sep)

\* cell values
Null == [t |-> "null"]
Undefined == [t |-> "undefined"]
Str(s) == [t |-> "string", s |-> s]
Num(n) == [t |-> "number", n |-> n]

\* Number.prototype.toString for the one number of the model
NumToString(n) == CASE n = 1 -> <<"1">>

\* value.toString() / String(value) on a string or a number
JsToString(v) == IF v.t = "string" THEN v.s ELSE NumToString(v.n)

\* the characters of a column name
ColName(c) ==
  CASE c = "a" -> <<"a">>
    [] c = "b" -> <<"b">>
    [] c = "_a" -> <<"_", "a">>

\* the column whose name has the characters s
ColOf(s) == CHOOSE c \in {"a", "b", "_a"} : ColName(c) = s

\* item[columnName]: a missing property reads as undefined
Get(item, col) == IF col \in DOMAIN item THEN item[col] ELSE Undefined

\* a < b in the order Array.prototype.sort uses for strings
RECURSIVE StrLess(_, _)
StrLess(a, b) ==
  IF b = <<>> THEN FALSE
  ELSE IF a = <<>> THEN TRUE
  ELSE IF CharCode(Head(a)) # CharCode(Head(b))
       THEN CharCode(Head(a)) < CharCode(Head(b))
  ELSE StrLess(Tail(a), Tail(b))

\* Object.keys(item).sort()
RECURSIVE SortedKeys(_)
SortedKeys(S) ==
  IF S = {} THEN <<>>
  ELSE LET m == CHOOSE k \in S : \A o \in S \ {k} : StrLess(k, o)
       IN <<m>> \o SortedKeys(S \ {m})

----------------------------------------------------------------------------
(* Composite key builders                                                  *)

\* MappingPart with .trim() left out of the fuzzy branch
MappingPart_NoTrim(item, mapping, isFile1) ==
  LET columnName == IF isFile1 THEN mapping.file1Column ELSE mapping.file2Column
      raw == Get(item, columnName)
      value == IF raw.t \in {"null", "undefined"} THEN Str(<<>>) ELSE raw
  IN IF ~mapping.isExactMatch /\ value.t = "string"
     THEN ToLowerCase(JsToString(value))
     ELSE JsToString(value)

\* one mapping's component of the match key (the body of mappings.forEach)
MappingPart(item, mapping, isFile1) ==
  LET columnName == IF isFile1 THEN mapping.file1Column ELSE mapping.file2Column
      raw == Get(item, columnName)
      value == IF raw.t \in {"null", "undefined"} THEN Str(<<>>) ELSE raw
  IN IF ~mapping.isExactMatch /\ value.t = "string"
     THEN Trim(ToLowerCase(JsToString(value)))
     ELSE JsToString(value)

\* the keyParts array of createCompositeKey
KeyParts(item, mappings, isFile1) ==
  [i \in 1..Len(mappings) |-> MappingPart(item, mappings[i], isFile1)]

\* createCompositeKey(item, mappings, isFile1)
createCompositeKey(item, mappings, isFile1) ==
  Join(KeyParts(item, mappings, isFile1), <<"|">>)

\* an array element that is not a row object: null, undefined or a number
Primitive(v) == ("#primitive" :> v)

\* !item || typeof item !== "object"
IsObject(item) == "#primitive" \notin DOMAIN item

\* item[key] raises a TypeError when item is null or undefined
PropertyReadThrows(item) ==
  ~IsObject(item) /\ item["#primitive"].t \in {"null", "undefined"}

\* one column's part of the all-columns key: `${key}:${String(value).trim()}`
AllColumnsPart(item, key) ==
  LET raw == item[key]
      value == IF raw.t \in {"null", "undefined"} THEN Str(<<>>) ELSE raw
  IN ColName(key) \o <<":">> \o Trim(JsToString(value))

RECURSIVE AllColumnsParts(_, _)
AllColumnsParts(item, keys) ==
  IF keys = <<>> THEN <<>>
  ELSE IF StartsWith(Head(keys), "_")
       THEN AllColumnsParts(item, Tail(keys))
       ELSE <<AllColumnsPart(item, ColOf(Head(keys)))>> \o AllColumnsParts(item, Tail(keys))

\* createCompositeKeyFromAllColumns(item)
createCompositeKeyFromAllColumns(item) ==
  IF ~IsObject(item) THEN <<>>
  ELSE Join(AllColumnsParts(item, SortedKeys({ColName(c) : c \in DOMAIN item})), <<"|">>)

----------------------------------------------------------------------------
(* Inputs                                                                  *)

\* all strings of at most n characters over the alphabet A
Strings(A, n) == UNION {[1..k -> A] : k \in 0..n}

\* a column mapping { file1Column, file2Column, isExactMatch }
Mapping(c1, c2, exact) == [file1Column |-> c1, file2Column |-> c2, isExactMatch |-> exact]

\* the mapping lists: column a alone, or columns a and b, each exact or not
MappingLists ==
  {<<Mapping("a", "a", e)>> : e \in BOOLEAN}
    \cup {<<Mapping("a", "a", e[1]), Mapping("b", "b", e[2])>> : e \in BOOLEAN \X BOOLEAN}

\* cells of the key-builder inputs
KeyValuesA ==
  {Str(s) : s \in Strings({"x", "X", " ", "|"}, MaxStrLen)}
    \cup {Null, Num(1), Str(<<"|", "b", ":">>)}
KeyValuesB == {Str(<<>>), Str(<<"|">>)}
KeyRecords ==
  {[a |-> v] : v \in KeyValuesA}
    \cup {[a |-> v[1], b |-> v[2]] : v \in KeyValuesA \X KeyValuesB}

\* the variables of an operation that is not running
IdleKey ==
  /\ kRec1 = <<>> /\ kRec2 = <<>> /\ kMaps = <<>> /\ kParts1 = <<>> /\ kParts2 = <<>>
  /\ kKey1 = <<>> /\ kKey2 = <<>> /\ kAll1 = <<>> /\ kAll2 = <<>>
  /\ kPc = [match |-> FALSE, all |-> FALSE, idle |-> TRUE]
IdleMatch ==
  /\ mForm = "idle" /\ mData1 = <<>> /\ mData2 = <<>> /\ mMaps = <<>> /\ mPc = "idle"
  /\ mPos1 = 0 /\ mPos2 = 0 /\ file2Map = <<>> /\ allFile2UniqueItems = <<>>
  /\ matched = <<>> /\ inFile1Only = <<>> /\ inFile2Only = <<>>
IdleDup ==
  /\ dEntry = "idle" /\ dData = <<>> /\ dOpts = <<>> /\ dPc = "idle" /\ dPos = 0
  /\ seen = <<>> /\ duplicates = <<>> /\ duplicateGroups = <<>> /\ uniqueItems = <<>>
  /\ processedCount = 0 /\ chunkIteration = 0 /\ dEmptyChunks = 0 /\ chunkResults = <<>>

IdleRun ==
  /\ rForm = "idle" /\ rMaps = <<>> /\ rSheets = <<>> /\ rWorkerTags = FALSE
  /\ rPc = "idle" /\ rErr = "" /\ rProgress = <<>> /\ rListener = "none" /\ rStream = 0
  /\ rValidated = FALSE /\ rRead = <<0, 0>> /\ rDeduped = <<0, 0>> /\ rUnique = <<0, 0>>
  /\ rMapped = 0 /\ rCompared = 0 /\ rIter = <<0, 0>> /\ rFile2Chunks = 0
  /\ wInbox = <<>> /\ wPc = "idle" /\ wReq = <<>> /\ wSent = 0 /\ wOut = <<>>
IdleChunks ==
  /\ cArray = [isArray |-> TRUE, items |-> <<>>] /\ cChunkSize = 1 /\ cOnProgress = FALSE
  /\ cPc = "idle" /\ cI = 0 /\ cResult = <<>> /\ cCalls = <<>> /\ cProgress = <<>>
IdleExport ==
  /\ xForm = "idle" /\ xCategory = "none" /\ xData = <<>> /\ xPc = "idle" /\ xNext = 0
  /\ xSheets = <<>> /\ xResult = "none" /\ xProgress = <<>>
IdleFlatten == fItem = <<>> /\ fOut = <<>> /\ fPc = "idle"
IdleSheet ==
  /\ sValid = 0 /\ sNulls = 0 /\ sRowSize = 0 /\ sPc = "idle" /\ sI = 0
  /\ errorCount = 0 /\ sFailed = 0 /\ sSheets = <<>>
IdleSplit ==
  /\ pData = <<>> /\ pPc = "idle" /\ pKey = 0 /\ pChunk = 0 /\ results = <<>>
  /\ currentWorkbook = <<>> /\ processedSheets = 0 /\ pProgress = <<>>
IdleChannel ==
  /\ qCalls = {} /\ qScript = <<>> /\ qPc = <<>> /\ qSent = <<>> /\ qWire = <<>>
  /\ messageQueue = <<>> /\ qListeners = {} /\ qYielded = <<>>
IdleSummary ==
  /\ tForm = "" /\ tRows = <<>> /\ tMaps = <<>> /\ tPc = "idle" /\ tPos = <<>>
  /\ tDup = <<>> /\ tCount = <<>> /\ tCmp = <<>> /\ summary = <<>>
IdleLate == IdleFlatten /\ IdleSheet /\ IdleSplit /\ IdleChannel /\ IdleSummary
IdleEarly == IdleKey /\ IdleMatch /\ IdleDup /\ IdleRun /\ IdleChunks /\ IdleExport
IdlePost == IdleChunks /\ IdleExport /\ IdleLate
IdleRest == IdleRun /\ IdlePost

----------------------------------------------------------------------------
(* Key builders applied to a dataset-1 record and a dataset-2 record       *)

InitKey ==
  /\ kRec1 \in KeyRecords /\ kRec2 \in KeyRecords /\ kMaps \in MappingLists
  /\ kParts1 = <<>> /\ kParts2 = <<>> /\ kKey1 = <<>> /\ kKey2 = <<>>
  /\ kAll1 = <<>> /\ kAll2 = <<>>
  /\ kPc = [match |-> FALSE, all |-> FALSE, idle |-> FALSE]
  /\ IdleMatch /\ IdleDup /\ IdleRest

\* createCompositeKey on both records (file 1 side and file 2 side)
BuildMatchKeys ==
  /\ ~kPc.idle /\ ~kPc.match
  /\ kParts1' = KeyParts(kRec1, kMaps, TRUE)
  /\ kParts2' = KeyParts(kRec2, kMaps, FALSE)
  /\ kKey1' = createCompositeKey(kRec1, kMaps, TRUE)
  /\ kKey2' = createCompositeKey(kRec2, kMaps, FALSE)
  /\ kPc' = [kPc EXCEPT !.match = TRUE]
  /\ UNCHANGED <<kRec1, kRec2, kMaps, kAll1, kAll2, mvars, dvars, restvars>>

\* createCompositeKeyFromAllColumns on both records
BuildAllColumnsKeys ==
  /\ ~kPc.idle /\ ~kPc.all
  /\ kAll1' = createCompositeKeyFromAllColumns(kRec1)
  /\ kAll2' = createCompositeKeyFromAllColumns(kRec2)
  /\ kPc' = [kPc EXCEPT !.all = TRUE]
  /\ UNCHANGED <<kRec1, kRec2, kMaps, kParts1, kParts2, kKey1, kKey2, mvars, dvars, restvars>>

NextKey == BuildMatchKeys \/ BuildAllColumnsKeys

SpecKey == InitKey /\ [][NextKey]_vars

----------------------------------------------------------------------------
(* Cross-dataset matcher                                                   *)

\* chunk size of the array-form loops
chunkSize == 1000

\* cells and rows of the matcher's inputs
MatchValuesA == {Null, Str(<<"x">>), Str(<<"X">>)}
MatchValuesB == {Str(<<>>), Str(<<"x">>)}
Match1Records == {[a |-> v[1], b |-> v[2]] : v \in MatchValuesA \X MatchValuesB}
Match2Records == {r \in Match1Records : r.a # Str(<<"X">>)}

\* the unique-item lists the duplicate detector can hand over: no two items
\* share an all-columns key
UniqueLists(R, n) ==
  {u \in UNION {[1..k -> R] : k \in 0..n} :
     \A i, j \in 1..Len(u) :
       i # j => createCompositeKeyFromAllColumns(u[i]) # createCompositeKeyFromAllColumns(u[j])}

\* the slot of a claimed dataset-2 item (null in the source)
NullItem == [t |-> "null"]

\* Map.get(key)!.push(x), creating the list first when the key is new
MapPush(map, key, x) ==
  IF key \in DOMAIN map
  THEN [map EXCEPT ![key] = Append(@, x)]
  ELSE (key :> <<x>>) @@ map

\* ---- streaming form: compareUniqueItemStreams

\* the loop body over one chunk of uniqueFile2ItemsStream; st = [map, all]
RECURSIVE StreamBuildMap(_, _, _)
StreamBuildMap(st, chunk, mappings) ==
  IF chunk = <<>> THEN st
  ELSE LET item == Head(chunk)
           file2CurrentIndex == Len(st.all)
           key == createCompositeKey(item, mappings, FALSE)
           wrapper == [item |-> item, _originalIndexInAllFile2 |-> file2CurrentIndex]
       IN StreamBuildMap(
            [all |-> Append(st.all, item),
             map |-> IF key # <<>> THEN MapPush(st.map, key, wrapper) ELSE st.map],
            Tail(chunk), mappings)

\* StreamCompare taking the last candidate (pop) instead of the first (shift)
RECURSIVE StreamCompare_Pop(_, _, _)
StreamCompare_Pop(st, chunk, mappings) ==
  IF chunk = <<>> THEN st
  ELSE LET item1 == Head(chunk)
           key == createCompositeKey(item1, mappings, TRUE)
           hit == key # <<>> /\ key \in DOMAIN st.map /\ Len(st.map[key]) > 0
       IN IF hit
          THEN LET matchedFile2ItemWrapper == st.map[key][Len(st.map[key])]
                   file2ActualItem == matchedFile2ItemWrapper.item
               IN StreamCompare_Pop(
                    [map |-> [st.map EXCEPT ![key] = SubSeq(@, 1, Len(@) - 1)],
                     all |-> [st.all EXCEPT
                                ![matchedFile2ItemWrapper._originalIndexInAllFile2 + 1] = NullItem],
                     matched |-> Append(st.matched,
                                        ("_matchedWith" :> file2ActualItem) @@ item1),
                     inFile1Only |-> st.inFile1Only],
                    Tail(chunk), mappings)
          ELSE StreamCompare_Pop(
                 [st EXCEPT !.inFile1Only = Append(@, item1)], Tail(chunk), mappings)

\* StreamCompare that also keeps a matched record in inFile1Only
RECURSIVE StreamCompare_KeepsMatched(_, _, _)
StreamCompare_KeepsMatched(st, chunk, mappings) ==
  IF chunk = <<>> THEN st
  ELSE LET item1 == Head(chunk)
           key == createCompositeKey(item1, mappings, TRUE)
           hit == key # <<>> /\ key \in DOMAIN st.map /\ Len(st.map[key]) > 0
       IN IF hit
          THEN LET matchedFile2ItemWrapper == Head(st.map[key])
                   file2ActualItem == matchedFile2ItemWrapper.item
               IN StreamCompare_KeepsMatched(
                    [map |-> [st.map EXCEPT ![key] = Tail(@)],
                     all |-> [st.all EXCEPT
                                ![matchedFile2ItemWrapper._originalIndexInAllFile2 + 1] = NullItem],
                     matched |-> Append(st.matched,
                                        ("_matchedWith" :> file2ActualItem) @@ item1),
                     inFile1Only |-> Append(st.inFile1Only, item1)],
                    Tail(chunk), mappings)
          ELSE StreamCompare_KeepsMatched(
                 [st EXCEPT !.inFile1Only = Append(@, item1)], Tail(chunk), mappings)

\* the loop body over one chunk of uniqueFile1ItemsStream;
\* st = [map, all, matched, inFile1Only]
RECURSIVE StreamCompare(_, _, _)
StreamCompare(st, chunk, mappings) ==
  IF chunk = <<>> THEN st
  ELSE LET item1 == Head(chunk)
           key == createCompositeKey(item1, mappings, TRUE)
           hit == key # <<>> /\ key \in DOMAIN st.map /\ Len(st.map[key]) > 0
       IN IF hit
          THEN LET matchedFile2ItemWrapper == Head(st.map[key])
                   file2ActualItem == matchedFile2ItemWrapper.item
               IN StreamCompare(
                    [map |-> [st.map EXCEPT ![key] = Tail(@)],
                     all |-> [st.all EXCEPT
                                ![matchedFile2ItemWrapper._originalIndexInAllFile2 + 1] = NullItem],
                     matched |-> Append(st.matched,
                                        ("_matchedWith" :> file2ActualItem) @@ item1),
                     inFile1Only |-> st.inFile1Only],
                    Tail(chunk), mappings)
          ELSE StreamCompare(
                 [st EXCEPT !.inFile1Only = Append(@, item1)], Tail(chunk), mappings)

\* a filter that returns the kept items in reverse order
RECURSIVE FilterNotNull_Reversed(_)
FilterNotNull_Reversed(items) ==
  IF items = <<>> THEN <<>>
  ELSE IF Head(items) = NullItem THEN FilterNotNull_Reversed(Tail(items))
  ELSE FilterNotNull_Reversed(Tail(items)) \o <<Head(items)>>

\* Array.prototype.filter(item => item !== null) / filter(Boolean)
RECURSIVE FilterNotNull(_)
FilterNotNull(items) ==
  IF items = <<>> THEN <<>>
  ELSE IF Head(items) = NullItem THEN FilterNotNull(Tail(items))
  ELSE <<Head(items)>> \o FilterNotNull(Tail(items))

\* ---- array form: compareFilesWithMappings

\* the inner loop over data2.slice(i, end); the map holds indices i + j
RECURSIVE ArrayBuildMap(_, _, _, _)
ArrayBuildMap(map, chunk, i, mappings) ==
  IF chunk = <<>> THEN map
  ELSE LET key == createCompositeKey(Head(chunk), mappings, FALSE)
       IN ArrayBuildMap(IF key # <<>> THEN MapPush(map, key, i) ELSE map,
                        Tail(chunk), i + 1, mappings)

\* ArrayCompare reading the first index (indices[0]) without removing it
RECURSIVE ArrayCompare_NoShift(_, _, _)
ArrayCompare_NoShift(st, chunk, mappings) ==
  IF chunk = <<>> THEN st
  ELSE LET item1 == Head(chunk)
           key == createCompositeKey(item1, mappings, TRUE)
           hit == key # <<>> /\ key \in DOMAIN st.map /\ Len(st.map[key]) > 0
       IN IF hit
          THEN LET matchIndex == Head(st.map[key])
                   item2 == mData2[matchIndex + 1]
               IN ArrayCompare_NoShift(
                    [map |-> st.map,
                     inFile2Only |-> [st.inFile2Only EXCEPT ![matchIndex + 1] = NullItem],
                     matched |-> Append(st.matched, ("_matchedWith" :> item2) @@ item1),
                     inFile1Only |-> st.inFile1Only],
                    Tail(chunk), mappings)
          ELSE ArrayCompare_NoShift(
                 [st EXCEPT !.inFile1Only = Append(@, item1)], Tail(chunk), mappings)

\* the inner loop over data1.slice(i, end); st = [map, inFile2Only, matched, inFile1Only]
RECURSIVE ArrayCompare(_, _, _)
ArrayCompare(st, chunk, mappings) ==
  IF chunk = <<>> THEN st
  ELSE LET item1 == Head(chunk)
           key == createCompositeKey(item1, mappings, TRUE)
           hit == key # <<>> /\ key \in DOMAIN st.map /\ Len(st.map[key]) > 0
       IN IF hit
          THEN LET matchIndex == Head(st.map[key])
                   item2 == st.inFile2Only[matchIndex + 1]
               IN ArrayCompare(
                    [map |-> [st.map EXCEPT ![key] = Tail(@)],
                     inFile2Only |-> [st.inFile2Only EXCEPT ![matchIndex + 1] = NullItem],
                     matched |-> Append(st.matched, ("_matchedWith" :> item2) @@ item1),
                     inFile1Only |-> st.inFile1Only],
                    Tail(chunk), mappings)
          ELSE ArrayCompare(
                 [st EXCEPT !.inFile1Only = Append(@, item1)], Tail(chunk), mappings)

Min(x, y) == IF x < y THEN x ELSE y

InitMatch ==
  /\ mForm \in {"stream", "array"}
  /\ mData1 \in UniqueLists(Match1Records, MaxItems)
  /\ mData2 \in UniqueLists(Match2Records, MaxItems)
  /\ mMaps \in MappingLists
  /\ mPc = "start" /\ mPos1 = 0 /\ mPos2 = 0
  /\ file2Map = <<>> /\ allFile2UniqueItems = <<>>
  /\ matched = <<>> /\ inFile1Only = <<>> /\ inFile2Only = <<>>
  /\ IdleKey /\ IdleDup /\ IdleRest

\* the declarations before the first loop
MatchStart ==
  /\ mPc = "start"
  /\ mPc' = "file2"
  /\ inFile2Only' = IF mForm = "array" THEN mData2 ELSE inFile2Only
  /\ UNCHANGED <<mForm, mData1, mData2, mMaps, mPos1, mPos2, file2Map,
                 allFile2UniqueItems, matched, inFile1Only, kvars, dvars, restvars>>

\* one chunk of uniqueFile2ItemsStream (n items; an empty chunk is skipped)
StreamFile2Chunk(n) ==
  /\ mForm = "stream" /\ mPc = "file2"
  /\ LET chunk == SubSeq(mData2, mPos2 + 1, mPos2 + n)
         st == StreamBuildMap([map |-> file2Map, all |-> allFile2UniqueItems], chunk, mMaps)
     IN /\ file2Map' = st.map
        /\ allFile2UniqueItems' = st.all
  /\ mPos2' = mPos2 + n
  /\ UNCHANGED <<mForm, mData1, mData2, mMaps, mPc, mPos1, matched, inFile1Only,
                 inFile2Only, kvars, dvars, restvars>>

\* one iteration of the loop that builds the map from data2
ArrayFile2Chunk ==
  /\ mForm = "array" /\ mPc = "file2" /\ mPos2 < Len(mData2)
  /\ LET end == Min(mPos2 + chunkSize, Len(mData2))
     IN /\ file2Map' = ArrayBuildMap(file2Map, SubSeq(mData2, mPos2 + 1, end), mPos2, mMaps)
        /\ mPos2' = end
  /\ UNCHANGED <<mForm, mData1, mData2, mMaps, mPc, mPos1, allFile2UniqueItems,
                 matched, inFile1Only, inFile2Only, kvars, dvars, restvars>>

\* dataset 2 is exhausted: the first loop ends
File2Exhausted ==
  /\ mPc = "file2" /\ mPos2 = Len(mData2)
  /\ mPc' = "file1"
  /\ UNCHANGED <<mForm, mData1, mData2, mMaps, mPos1, mPos2, file2Map,
                 allFile2UniqueItems, matched, inFile1Only, inFile2Only, kvars, dvars, restvars>>

\* one chunk of uniqueFile1ItemsStream
StreamFile1Chunk(n) ==
  /\ mForm = "stream" /\ mPc = "file1"
  /\ LET chunk == SubSeq(mData1, mPos1 + 1, mPos1 + n)
         st == StreamCompare([map |-> file2Map, all |-> allFile2UniqueItems,
                              matched |-> matched, inFile1Only |-> inFile1Only],
                             chunk, mMaps)
     IN /\ file2Map' = st.map
        /\ allFile2UniqueItems' = st.all
        /\ matched' = st.matched
        /\ inFile1Only' = st.inFile1Only
  /\ mPos1' = mPos1 + n
  /\ UNCHANGED <<mForm, mData1, mData2, mMaps, mPc, mPos2, inFile2Only, kvars, dvars, restvars>>

\* one iteration of the loop that compares data1 against the map
ArrayFile1Chunk ==
  /\ mForm = "array" /\ mPc = "file1" /\ mPos1 < Len(mData1)
  /\ LET end == Min(mPos1 + chunkSize, Len(mData1))
         st == ArrayCompare([map |-> file2Map, inFile2Only |-> inFile2Only,
                             matched |-> matched, inFile1Only |-> inFile1Only],
                            SubSeq(mData1, mPos1 + 1, end), mMaps)
     IN /\ file2Map' = st.map
        /\ inFile2Only' = st.inFile2Only
        /\ matched' = st.matched
        /\ inFile1Only' = st.inFile1Only
        /\ mPos1' = end
  /\ UNCHANGED <<mForm, mData1, mData2, mMaps, mPc, mPos2, allFile2UniqueItems,
                 kvars, dvars, restvars>>

\* dataset 1 is exhausted: filter the unclaimed dataset-2 items and return
MatchReturn ==
  /\ mPc = "file1" /\ mPos1 = Len(mData1)
  /\ inFile2Only' = IF mForm = "stream" THEN FilterNotNull(allFile2UniqueItems)
                    ELSE FilterNotNull(inFile2Only)
  /\ mPc' = "done"
  /\ UNCHANGED <<mForm, mData1, mData2, mMaps, mPos1, mPos2, file2Map,
                 allFile2UniqueItems, matched, inFile1Only, kvars, dvars, restvars>>

NextMatch ==
  \/ MatchStart
  \/ \E n \in 0..MaxItems : n <= Len(mData2) - mPos2 /\ StreamFile2Chunk(n)
  \/ ArrayFile2Chunk
  \/ File2Exhausted
  \/ \E n \in 0..MaxItems : n <= Len(mData1) - mPos1 /\ StreamFile1Chunk(n)
  \/ ArrayFile1Chunk
  \/ MatchReturn

SpecMatch == InitMatch /\ [][NextMatch]_vars

(* ---- claims about the matcher ---- *)

\* the dataset-1 record and the back-reference of a matched entry
Item1Of(m) == [c \in DOMAIN m \ {"_matchedWith"} |-> m[c]]
BackRef(m) == m["_matchedWith"]

\* the dataset-2 items not claimed so far
Unclaimed ==
  IF mForm = "stream" /\ mPc # "done" THEN FilterNotNull(allFile2UniqueItems)
  ELSE FilterNotNull(inFile2Only)

Key1(i) == createCompositeKey(mData1[i], mMaps, TRUE)
Key2(j) == createCompositeKey(mData2[j], mMaps, FALSE)
\* the position of record i among the records of its dataset with its key
Rank1(i) == Cardinality({k \in 1..i : Key1(k) = Key1(i)})
Rank2(j) == Cardinality({k \in 1..j : Key2(k) = Key2(j)})
Count2(K) == Cardinality({j \in 1..Len(mData2) : Key2(j) = K})

\* C1: when the matcher returns, |matched| + |inFile1Only| is the number of
\* dataset-1 unique items consumed and |matched| + |inFile2Only| the number
\* of dataset-2 unique items consumed.
C1_PartitionCompleteness ==
  mPc = "done" =>
    /\ mPos1 = Len(mData1) /\ mPos2 = Len(mData2)
    /\ Len(matched) + Len(inFile1Only) = Len(mData1)
    /\ Len(matched) + Len(inFile2Only) = Len(mData2)

\* a run that ends with a matched pair, a file-1-only and a file-2-only record
C1_Witness ==
  /\ mPc = "done"
  /\ Len(matched) = 1 /\ Len(inFile1Only) = 1 /\ Len(inFile2Only) = 1

\* C2: at every point of the comparison no dataset-2 record is the
\* back-reference of two matched entries, and no back-reference is also
\* among the unclaimed dataset-2 records (inFile2Only at the end).
C2_AtMostOneMatchPerFile2Record ==
  mPc \in {"file1", "done"} =>
    /\ \A i, j \in 1..Len(matched) : i # j => BackRef(matched[i]) # BackRef(matched[j])
    /\ \A i \in 1..Len(matched) : \A k \in 1..Len(Unclaimed) :
         BackRef(matched[i]) # Unclaimed[k]

\* two dataset-1 records with one key were matched against two dataset-2
\* records with that key
C2_Witness ==
  /\ mPc = "done" /\ Len(matched) = 2
  /\ Key1(1) = Key1(2) /\ Key2(1) = Key2(2)

\* the FIFO rule for dataset-1 record i: paired with the dataset-2 record of
\* the same key and the same rank, or in inFile1Only when there is none
FifoFor(i) ==
  IF Rank1(i) <= Count2(Key1(i))
  THEN \E k \in 1..Len(matched) :
         /\ Item1Of(matched[k]) = mData1[i]
         /\ \E j \in 1..Len(mData2) :
              /\ Key2(j) = Key1(i) /\ Rank2(j) = Rank1(i)
              /\ BackRef(matched[k]) = mData2[j]
  ELSE \E k \in 1..Len(inFile1Only) : inFile1Only[k] = mData1[i]

\* C3 (as claimed): for every match key K, the i-th dataset-1 record with key
\* K is paired with the i-th dataset-2 record with key K, and the dataset-1
\* records with key K beyond the last dataset-2 record go to inFile1Only.
C3_FifoEveryKey ==
  mPc = "done" => \A i \in 1..Len(mData1) : FifoFor(i)

\* C3 (amended): the same for every non-empty match key K.
C3_FifoNonEmptyKey ==
  mPc = "done" => \A i \in 1..Len(mData1) : Key1(i) # <<>> => FifoFor(i)

\* two records on each side share a non-empty key and are paired in order
C3_Witness ==
  /\ mPc = "done" /\ Len(mData1) = 2 /\ Len(mData2) = 2
  /\ Key1(1) # <<>> /\ Key1(1) = Key1(2) /\ Key2(1) = Key1(1) /\ Key2(2) = Key1(1)
  /\ BackRef(matched[1]) = mData2[1] /\ BackRef(matched[2]) = mData2[2]

\* every mapped column of the record is null, undefined or the empty string
AllMappedEmpty(item, isFile1) ==
  \A i \in 1..Len(mMaps) :
    LET v == Get(item, IF isFile1 THEN mMaps[i].file1Column ELSE mMaps[i].file2Column)
    IN v.t \in {"null", "undefined"} \/ v = Str(<<>>)

\* C4 (as claimed): a record whose mapped columns are all empty never
\* matches: a dataset-1 record of that kind ends in inFile1Only and a
\* dataset-2 record of that kind in inFile2Only, for any number of mappings.
C4_EmptyKeyNeverMatches ==
  mPc = "done" =>
    /\ \A i \in 1..Len(mData1) :
         AllMappedEmpty(mData1[i], TRUE) => \E k \in 1..Len(inFile1Only) : inFile1Only[k] = mData1[i]
    /\ \A j \in 1..Len(mData2) :
         AllMappedEmpty(mData2[j], FALSE) => \E k \in 1..Len(inFile2Only) : inFile2Only[k] = mData2[j]

\* the items of a list that belong to a set, in the order of the list
RECURSIVE Keep(_, _)
Keep(items, S) ==
  IF items = <<>> THEN <<>>
  ELSE IF Head(items) \in S THEN <<Head(items)>> \o Keep(Tail(items), S)
  ELSE Keep(Tail(items), S)

ClaimedFile2 == {BackRef(matched[k]) : k \in 1..Len(matched)}
MatchedFile1 == {Item1Of(matched[k]) : k \in 1..Len(matched)}

\* C27: when the matcher returns, inFile2Only is the subsequence of dataset
\* 2's unique items that no matched entry refers to, in their original
\* order, and matched and inFile1Only each list dataset-1 records in
\* dataset-1 arrival order.
C27_OrderPreserved ==
  mPc = "done" =>
    /\ inFile2Only = Keep(mData2, {mData2[j] : j \in 1..Len(mData2)} \ ClaimedFile2)
    /\ [k \in 1..Len(matched) |-> Item1Of(matched[k])] = Keep(mData1, MatchedFile1)
    /\ inFile1Only = Keep(mData1, {mData1[i] : i \in 1..Len(mData1)} \ MatchedFile1)

\* two records on each side and no common key: both lists of unmatched
\* records hold two records, in the order of their dataset
C27_Witness ==
  /\ mPc = "done" /\ matched = <<>>
  /\ Len(mData2) = 2 /\ inFile2Only = <<mData2[1], mData2[2]>>
  /\ Len(mData1) = 2 /\ inFile1Only = <<mData1[1], mData1[2]>>

----------------------------------------------------------------------------
(* Duplicate detector                                                      *)

\* Map.has / Map.set / push on the insertion-ordered duplicateGroups map,
\* a sequence of [key, items] entries
HasGroup(groups, key) == \E k \in 1..Len(groups) : groups[k].key = key
SetGroup(groups, key, items) == Append(groups, [key |-> key, items |-> items])
PushToGroup(groups, key, item) ==
  [k \in 1..Len(groups) |->
     IF groups[k].key = key
     THEN [key |-> key, items |-> Append(groups[k].items, item)]
     ELSE groups[k]]

\* the state of one detector run before its first record
EmptyDup == [seen |-> <<>>, duplicates |-> <<>>, groups |-> <<>>, unique |-> <<>>]

\* ---- array form: findDuplicatesInFile (and the identical findExactDuplicates)

\* the body of the inner loop for chunk[j], whose index in data is index = i + j
FileItem(st, item, index, data) ==
  LET key == createCompositeKeyFromAllColumns(item)
  IN IF key = <<>> THEN st
     ELSE IF key \in DOMAIN st.seen
     THEN [st EXCEPT
             !.duplicates = Append(@, item),
             !.groups = IF ~HasGroup(@, key)
                        THEN SetGroup(@, key, <<data[st.seen[key] + 1], item>>)
                        ELSE PushToGroup(@, key, item)]
     ELSE [st EXCEPT !.seen = (key :> index) @@ @, !.unique = Append(@, item)]

\* the inner loop over chunk = data.slice(i, end)
RECURSIVE FileChunk(_, _, _, _)
FileChunk(st, chunk, i, data) ==
  IF chunk = <<>> THEN st
  ELSE FileChunk(FileItem(st, Head(chunk), i, data), Tail(chunk), i + 1, data)

\* the outer loop from index i on
RECURSIVE FileLoop(_, _, _)
FileLoop(st, data, i) ==
  IF i >= Len(data) THEN st
  ELSE LET end == Min(i + chunkSize, Len(data))
       IN FileLoop(FileChunk(st, SubSeq(data, i + 1, end), i, data), data, end)

\* findDuplicatesInFile(data): { duplicates, duplicateGroups, uniqueItems }
findDuplicatesInFile(data) == FileLoop(EmptyDup, data, 0)

\* ---- streaming form: findDuplicatesInFileStream

\* StreamItem opening a group without the first-seen record
StreamItem_GroupWithoutOriginal(st, item) ==
  LET key == createCompositeKeyFromAllColumns(item)
  IN IF key = <<>> THEN st
     ELSE IF key \in DOMAIN st.seen
     THEN [st EXCEPT
             !.duplicates = Append(@, item),
             !.groups = IF ~HasGroup(@, key)
                        THEN SetGroup(@, key, <<item>>)
                        ELSE PushToGroup(@, key, item)]
     ELSE [st EXCEPT !.seen = (key :> item) @@ @, !.unique = Append(@, item)]

\* the body of `for (const item of chunk)`; st.unique is uniqueItemsInChunk
StreamItem(st, item) ==
  LET key == createCompositeKeyFromAllColumns(item)
  IN IF key = <<>> THEN st
     ELSE IF key \in DOMAIN st.seen
     THEN [st EXCEPT
             !.duplicates = Append(@, item),
             !.groups = IF ~HasGroup(@, key)
                        THEN SetGroup(@, key, <<st.seen[key], item>>)
                        ELSE PushToGroup(@, key, item)]
     ELSE [st EXCEPT !.seen = (key :> item) @@ @, !.unique = Append(@, item)]

RECURSIVE StreamItems(_, _)
StreamItems(st, chunk) ==
  IF chunk = <<>> THEN st ELSE StreamItems(StreamItem(st, Head(chunk)), Tail(chunk))

\* StreamChunk with the seen map created anew for every chunk
StreamChunk_FreshSeen(st, chunk) == StreamItems([st EXCEPT !.seen = <<>>], chunk)

\* one non-empty chunk: the items are classified against the run's seen map
StreamChunk(st, chunk) == StreamItems(st, chunk)

\* ---- generic form: findDuplicates(data, columns, options)

\* the composite key of one item over keysToCheck
RECURSIVE GenericKeyParts(_, _, _)
GenericKeyParts(item, keysToCheck, opts) ==
  IF keysToCheck = <<>> THEN <<>>
  ELSE LET key == Head(keysToCheck)
           raw == Get(item, key)
           empty == raw.t \in {"null", "undefined"}
           s0 == JsToString(raw)
           s1 == IF ~opts.caseSensitive THEN ToLowerCase(s0) ELSE s0
           s2 == IF opts.trimWhitespace THEN Trim(s1) ELSE s1
           value == IF empty THEN <<>> ELSE s2
           rest == GenericKeyParts(item, Tail(keysToCheck), opts)
       IN IF empty /\ opts.ignoreEmptyValues THEN rest
          ELSE <<ColName(key) \o <<":">> \o value>> \o rest

GenericKey(item, keysToCheck, opts) == Join(GenericKeyParts(item, keysToCheck, opts), <<"|">>)

\* columns.length > 0 ? columns : Object.keys(data[0] || {})
KeysToCheck(opts) == IF Len(opts.columns) > 0 THEN opts.columns ELSE opts.firstKeys

\* the processor's loop body; st.duplicates is chunkDuplicates
GenericItem(st, item, itemIndex, data, opts) ==
  LET compositeKey == GenericKey(item, KeysToCheck(opts), opts)
  IN IF compositeKey = <<>> THEN st
     ELSE IF compositeKey \in DOMAIN st.seen
     THEN [st EXCEPT
             !.duplicates = Append(@, item),
             !.groups = IF ~HasGroup(@, compositeKey)
                        THEN SetGroup(@, compositeKey, <<data[st.seen[compositeKey] + 1], item>>)
                        ELSE PushToGroup(@, compositeKey, item)]
     ELSE [st EXCEPT !.seen = (compositeKey :> itemIndex) @@ @, !.unique = Append(@, item)]

RECURSIVE GenericChunk(_, _, _, _, _)
GenericChunk(st, chunk, itemIndex, data, opts) ==
  IF chunk = <<>> THEN st
  ELSE GenericChunk(GenericItem(st, Head(chunk), itemIndex, data, opts),
                    Tail(chunk), itemIndex + 1, data, opts)

\* processArrayInChunks over the whole array with findDuplicates' processor,
\* for an array whose every element can be read
RECURSIVE GenericLoop(_, _, _, _)
GenericLoop(st, data, i, opts) ==
  IF i >= Len(data) THEN st
  ELSE LET end == Min(i + chunkSize, Len(data))
       IN GenericLoop(GenericChunk(st, SubSeq(data, i + 1, end), i, data, opts),
                      data, end, opts)

\* what findDuplicates(data, columns, options) has collected when the chunk
\* loop is over: uniqueItems, the group map and the flat chunk results
findDuplicates(data, opts) ==
  IF Len(data) = 0 \/ Len(KeysToCheck(opts)) = 0 THEN EmptyDup
  ELSE GenericLoop(EmptyDup, data, 0, opts)

\* ---- findExactDuplicates: the same loop as findDuplicatesInFile

\* ExactItem without the `if (key)` guard
ExactItem_NoKeyGuard(st, item, index, data) ==
  LET key == createCompositeKeyFromAllColumns(item)
  IN IF key \in DOMAIN st.seen
     THEN [st EXCEPT
             !.duplicates = Append(@, item),
             !.groups = IF ~HasGroup(@, key)
                        THEN SetGroup(@, key, <<data[st.seen[key] + 1], item>>)
                        ELSE PushToGroup(@, key, item)]
     ELSE [st EXCEPT !.seen = (key :> index) @@ @, !.unique = Append(@, item)]

ExactItem(st, item, index, data) ==
  LET key == createCompositeKeyFromAllColumns(item)
  IN IF key = <<>> THEN st
     ELSE IF key \in DOMAIN st.seen
     THEN [st EXCEPT
             !.duplicates = Append(@, item),
             !.groups = IF ~HasGroup(@, key)
                        THEN SetGroup(@, key, <<data[st.seen[key] + 1], item>>)
                        ELSE PushToGroup(@, key, item)]
     ELSE [st EXCEPT !.seen = (key :> index) @@ @, !.unique = Append(@, item)]

RECURSIVE ExactChunk(_, _, _, _)
ExactChunk(st, chunk, i, data) ==
  IF chunk = <<>> THEN st
  ELSE ExactChunk(ExactItem(st, Head(chunk), i, data), Tail(chunk), i + 1, data)

\* ---- inputs of the detector

DupValues == {Null, Str(<<"x">>), Str(<<"X">>), Str(<<" ", "x">>)}
\* rows: no column at all, column a, columns a and b, column a and an
\* internal column
DupRecords ==
  {<<>>}
    \cup {[a |-> v] : v \in DupValues}
    \cup {[a |-> Str(<<"x">>), b |-> w] : w \in {Null, Str(<<"x">>)}}
    \cup {[a |-> Str(<<"x">>), _a |-> Str(<<"x">>)]}

\* the orders Object.keys can list a set of columns in
Perms(S) ==
  {p \in [1..Cardinality(S) -> S] : \A i, j \in 1..Cardinality(S) : i # j => p[i] # p[j]}

\* the options findDuplicates defaults to
DefaultOpts ==
  [columns |-> <<>>, caseSensitive |-> FALSE, trimWhitespace |-> TRUE,
   ignoreEmptyValues |-> TRUE, firstKeys |-> <<>>]

GenericOpts(data) ==
  {[columns |-> c, caseSensitive |-> cs, trimWhitespace |-> tw,
    ignoreEmptyValues |-> ie, firstKeys |-> fk] :
     c \in {<<>>, <<"a">>}, cs \in BOOLEAN, tw \in BOOLEAN, ie \in BOOLEAN,
     fk \in IF data = <<>> \/ ~IsObject(data[1]) THEN {<<>>} ELSE Perms(DOMAIN data[1])}

\* arrays with elements that are not row objects
MalformedRecords ==
  {Primitive(Null), Primitive(Num(1)), [a |-> Str(<<"x">>)], [a |-> Str(<<"X">>)]}

InitDup ==
  /\ dEntry \in {"file", "stream", "exact", "generic"}
  /\ dData \in UNION {[1..k -> DupRecords] : k \in 0..MaxRows}
  /\ dOpts \in IF dEntry = "generic" THEN GenericOpts(dData) ELSE {DefaultOpts}
  /\ dPc = IF dEntry = "generic" THEN "start" ELSE "loop"
  /\ dPos = 0 /\ seen = <<>> /\ duplicates = <<>> /\ duplicateGroups = <<>>
  /\ uniqueItems = <<>> /\ processedCount = 0 /\ chunkIteration = 0
  /\ dEmptyChunks = 0 /\ chunkResults = <<>>
  /\ IdleKey /\ IdleMatch /\ IdleRest

\* a detector run over an array that may hold elements that are not objects
InitDupMalformed ==
  /\ dEntry \in {"file", "stream", "exact", "generic"}
  /\ dData \in UNION {[1..k -> MalformedRecords] : k \in 0..MaxRows}
  /\ dOpts \in IF dEntry = "generic" THEN GenericOpts(dData) ELSE {DefaultOpts}
  /\ dPc = IF dEntry = "generic" THEN "start" ELSE "loop"
  /\ dPos = 0 /\ seen = <<>> /\ duplicates = <<>> /\ duplicateGroups = <<>>
  /\ uniqueItems = <<>> /\ processedCount = 0 /\ chunkIteration = 0
  /\ dEmptyChunks = 0 /\ chunkResults = <<>>
  /\ IdleKey /\ IdleMatch /\ IdleRest

DupState == [seen |-> seen, duplicates |-> duplicates, groups |-> duplicateGroups,
             unique |-> uniqueItems]

\* one iteration of findDuplicatesInFile's outer loop
FileChunkStep ==
  /\ dEntry = "file" /\ dPc = "loop" /\ dPos < Len(dData)
  /\ LET end == Min(dPos + chunkSize, Len(dData))
         st == FileChunk(DupState, SubSeq(dData, dPos + 1, end), dPos, dData)
     IN /\ seen' = st.seen /\ duplicates' = st.duplicates
        /\ duplicateGroups' = st.groups /\ uniqueItems' = st.unique
        /\ dPos' = end
  /\ UNCHANGED <<dEntry, dData, dOpts, dPc, processedCount, chunkIteration,
                 dEmptyChunks, chunkResults, kvars, mvars, restvars>>

\* findDuplicatesInFile returns
FileReturn ==
  /\ dEntry = "file" /\ dPc = "loop" /\ dPos >= Len(dData)
  /\ dPc' = "done"
  /\ UNCHANGED <<dEntry, dData, dOpts, dPos, seen, duplicates, duplicateGroups,
                 uniqueItems, processedCount, chunkIteration, dEmptyChunks,
                 chunkResults, kvars, mvars, restvars>>

\* one iteration of findExactDuplicates' outer loop
ExactChunkStep ==
  /\ dEntry = "exact" /\ dPc = "loop" /\ dPos < Len(dData)
  /\ LET end == Min(dPos + chunkSize, Len(dData))
         st == ExactChunk(DupState, SubSeq(dData, dPos + 1, end), dPos, dData)
     IN /\ seen' = st.seen /\ duplicates' = st.duplicates
        /\ duplicateGroups' = st.groups /\ uniqueItems' = st.unique
        /\ dPos' = end
  /\ UNCHANGED <<dEntry, dData, dOpts, dPc, processedCount, chunkIteration,
                 dEmptyChunks, chunkResults, kvars, mvars, restvars>>

\* findExactDuplicates returns
ExactReturn ==
  /\ dEntry = "exact" /\ dPc = "loop" /\ dPos >= Len(dData)
  /\ dPc' = "done"
  /\ UNCHANGED <<dEntry, dData, dOpts, dPos, seen, duplicates, duplicateGroups,
                 uniqueItems, processedCount, chunkIteration, dEmptyChunks,
                 chunkResults, kvars, mvars, restvars>>

\* processStreamAndYieldUniques takes the next chunk (n rows) of dataStream;
\* uniqueItems collects the chunks it yields
StreamChunkStep(n) ==
  /\ dEntry = "stream" /\ dPc = "loop"
  /\ IF n = 0
     THEN \* `if (!chunk || chunk.length === 0) continue`
          /\ dEmptyChunks < MaxEmptyChunks
          /\ dEmptyChunks' = dEmptyChunks + 1
          /\ UNCHANGED <<dPos, seen, duplicates, duplicateGroups, uniqueItems,
                         processedCount, chunkIteration>>
     ELSE LET chunk == SubSeq(dData, dPos + 1, dPos + n)
              st == StreamChunk([DupState EXCEPT !.unique = <<>>], chunk)
          IN /\ processedCount' = processedCount + Len(chunk)
             /\ seen' = st.seen /\ duplicates' = st.duplicates
             /\ duplicateGroups' = st.groups
             /\ uniqueItems' = uniqueItems \o st.unique
             /\ chunkIteration' = chunkIteration + 1
             /\ dPos' = dPos + n
             /\ UNCHANGED dEmptyChunks
  /\ UNCHANGED <<dEntry, dData, dOpts, dPc, chunkResults, kvars, mvars, restvars>>

\* dataStream is exhausted: the unique-item stream ends
StreamEnd ==
  /\ dEntry = "stream" /\ dPc = "loop" /\ dPos = Len(dData)
  /\ dPc' = "done"
  /\ UNCHANGED <<dEntry, dData, dOpts, dPos, seen, duplicates, duplicateGroups,
                 uniqueItems, processedCount, chunkIteration, dEmptyChunks,
                 chunkResults, kvars, mvars, restvars>>

\* findDuplicates up to its first await: the two early returns
GenericStart ==
  /\ dEntry = "generic" /\ dPc = "start"
  /\ dPc' = IF Len(dData) = 0 \/ Len(KeysToCheck(dOpts)) = 0 THEN "done" ELSE "loop"
  /\ UNCHANGED <<dEntry, dData, dOpts, dPos, seen, duplicates, duplicateGroups,
                 uniqueItems, processedCount, chunkIteration, dEmptyChunks,
                 chunkResults, kvars, mvars, restvars>>

\* one iteration of processArrayInChunks with findDuplicates' processor:
\* result.push(...processedChunk) flattens the chunk's duplicates into the
\* result. The processor reads item[key] of every element: at the first null
\* or undefined element it raises, after the elements before it have been
\* entered into seen, uniqueItems and the group map, and findDuplicates rejects
GenericChunkStep ==
  /\ dEntry = "generic" /\ dPc = "loop" /\ dPos < Len(dData)
  /\ LET chunkIndex == dPos \div chunkSize
         end == Min(dPos + chunkSize, Len(dData))
         chunk == SubSeq(dData, dPos + 1, end)
         bad == {j \in 1..Len(chunk) : PropertyReadThrows(chunk[j])}
         upto == IF bad = {} THEN Len(chunk)
                 ELSE (CHOOSE j \in bad : \A k \in bad : j <= k) - 1
         st == GenericChunk([DupState EXCEPT !.duplicates = <<>>],
                            SubSeq(chunk, 1, upto), chunkIndex * chunkSize,
                            dData, dOpts)
     IN /\ seen' = st.seen /\ duplicateGroups' = st.groups /\ uniqueItems' = st.unique
        /\ chunkResults' = IF bad = {} THEN chunkResults \o st.duplicates ELSE chunkResults
        /\ dPos' = IF bad = {} THEN end ELSE dPos
        /\ dPc' = IF bad = {} THEN dPc ELSE "threwOnItem"
  /\ UNCHANGED <<dEntry, dData, dOpts, duplicates, processedCount,
                 chunkIteration, dEmptyChunks, kvars, mvars, restvars>>

\* the .then callback: `for (const chunkDuplicates of chunkResults)
\* duplicates.push(...chunkDuplicates)` spreads each element of the flat
\* result, a row object, which is not iterable: a TypeError unless the result
\* is empty
GenericCombine ==
  /\ dEntry = "generic" /\ dPc = "loop" /\ dPos >= Len(dData)
  /\ dPc' = IF chunkResults = <<>> THEN "done" ELSE "threw"
  /\ UNCHANGED <<dEntry, dData, dOpts, dPos, seen, duplicates, duplicateGroups,
                 uniqueItems, processedCount, chunkIteration, dEmptyChunks,
                 chunkResults, kvars, mvars, restvars>>

NextDup ==
  \/ FileChunkStep \/ FileReturn
  \/ ExactChunkStep \/ ExactReturn
  \/ \E n \in 0..MaxRows : n <= Len(dData) - dPos /\ StreamChunkStep(n)
  \/ StreamEnd
  \/ GenericStart \/ GenericChunkStep \/ GenericCombine

SpecDup == InitDup /\ [][NextDup]_vars

SpecDupMalformed == InitDupMalformed /\ [][NextDup]_vars

(* ---- claims about the duplicate detector ---- *)

\* the composite key of input row i under the running entry point's policy
DupKeyOf(i) ==
  IF dEntry = "generic" THEN GenericKey(dData[i], KeysToCheck(dOpts), dOpts)
  ELSE createCompositeKeyFromAllColumns(dData[i])

\* the rows of data at the positions in S, in input order
RECURSIVE SubseqAt(_, _, _)
SubseqAt(data, S, i) ==
  IF i > Len(data) THEN <<>>
  ELSE (IF i \in S THEN <<data[i]>> ELSE <<>>) \o SubseqAt(data, S, i + 1)

KeyedRows == {i \in 1..Len(dData) : DupKeyOf(i) # <<>>}
FirstOccurrences == {i \in KeyedRows : \A j \in 1..(i - 1) : DupKeyOf(j) # DupKeyOf(i)}
LaterOccurrences == KeyedRows \ FirstOccurrences

\* how often row r occurs in the sequence q
Count(r, q) == Cardinality({i \in 1..Len(q) : q[i] = r})

\* the items of all groups but each group's first
RECURSIVE GroupTails(_)
GroupTails(groups) ==
  IF groups = <<>> THEN <<>> ELSE Tail(Head(groups).items) \o GroupTails(Tail(groups))

\* C7: every duplicate group has at least 2 items, its items are rows of the
\* input that share the group's key, and a key that occurs once has no group.
C7_GroupsHaveTwoItemsOfOneKey ==
  \A k \in 1..Len(duplicateGroups) :
    LET g == duplicateGroups[k]
    IN /\ Len(g.items) >= 2
       /\ \A n \in 1..Len(g.items) :
            \E i \in 1..Len(dData) : dData[i] = g.items[n] /\ DupKeyOf(i) = g.key
       /\ Cardinality({i \in 1..Len(dData) : DupKeyOf(i) = g.key}) >= 2
       /\ \A l \in 1..Len(duplicateGroups) : l # k => duplicateGroups[l].key # g.key

\* a stream run over three rows that ends with one group of the two rows
\* sharing a key and two unique items
C7_Witness ==
  /\ dEntry = "stream" /\ dPc = "done" /\ Len(dData) = 3
  /\ Len(duplicateGroups) = 1 /\ Len(duplicateGroups[1].items) = 2
  /\ Len(uniqueItems) = 2

\* C8: for findDuplicatesInFile, findDuplicatesInFileStream and
\* findExactDuplicates, uniqueItems together with the duplicates (the items
\* of all groups but their originals) hold every input row with a non-empty
\* key exactly as often as the input does, and nothing else.
C8_NoRecordLostOrInvented ==
  (dEntry \in {"file", "stream", "exact"} /\ dPc = "done") =>
    \A r \in DupRecords :
      LET want == Count(r, SubseqAt(dData, KeyedRows, 1))
      IN /\ Count(r, uniqueItems) + Count(r, duplicates) = want
         /\ Count(r, uniqueItems) + Count(r, GroupTails(duplicateGroups)) = want

\* an array run whose input holds an empty-key row, a duplicated row and a
\* row that stays unique
C8_Witness ==
  /\ dEntry = "exact" /\ dPc = "done"
  /\ Len(dData) = 3 /\ Cardinality(KeyedRows) = 2
  /\ Len(duplicates) = 1 /\ Len(uniqueItems) = 1

\* C9 (as claimed): when a detector run is over, uniqueItems is the
\* subsequence of first occurrences of each non-empty key, duplicates the
\* subsequence of all later occurrences, and each group lists the rows of its
\* key in arrival order, the first occurrence first.
C9_FirstSeenAndOrder ==
  dPc \in {"done", "threw"} =>
    /\ uniqueItems = SubseqAt(dData, FirstOccurrences, 1)
    /\ duplicates = SubseqAt(dData, LaterOccurrences, 1)
    /\ \A k \in 1..Len(duplicateGroups) :
         duplicateGroups[k].items =
           SubseqAt(dData, {i \in KeyedRows : DupKeyOf(i) = duplicateGroups[k].key}, 1)

\* C10: once the unique-item stream of findDuplicatesInFileStream is fully
\* consumed, its duplicates, duplicate groups and concatenated unique items
\* are those findDuplicatesInFile computes from the whole array, however the
\* rows were cut into chunks.
C10_ChunkingDoesNotChangeResults ==
  (dEntry = "stream" /\ dPc = "done") =>
    LET whole == findDuplicatesInFile(dData)
    IN /\ duplicates = whole.duplicates
       /\ duplicateGroups = whole.groups
       /\ uniqueItems = whole.unique

\* three rows delivered one per chunk with an empty chunk in between, a
\* duplicate among them
C10_Witness ==
  /\ dEntry = "stream" /\ dPc = "done"
  /\ Len(dData) = 3 /\ chunkIteration = 3 /\ dEmptyChunks = 1
  /\ Len(duplicates) >= 1

(* ---- claims about the key builders ---- *)

\* the raw string form of a cell after null coercion
RawForm(v) == IF v.t \in {"null", "undefined"} THEN <<>> ELSE JsToString(v)

\* s without its leading and trailing blanks, by positions
Core(s) ==
  LET idx == {i \in 1..Len(s) : s[i] # " "}
  IN IF idx = {} THEN <<>>
     ELSE SubSeq(s, CHOOSE i \in idx : \A j \in idx : i <= j,
                    CHOOSE i \in idx : \A j \in idx : i >= j)

SameLetter(c, d) == c = d \/ {c, d} = {"x", "X"}

\* s and t differ at most in letter case and in leading/trailing whitespace
DifferOnlyInCaseOrBlanks(s, t) ==
  /\ Len(Core(s)) = Len(Core(t))
  /\ \A i \in 1..Len(Core(s)) : SameLetter(Core(s)[i], Core(t)[i])

\* The two halves of C5: the match keys of r1 and r2 are equal exactly when
\* every mapping's normalised values are equal, and the all-columns keys are
\* equal exactly when the records have the same data columns with equal
\* trimmed values -- also when values contain the separators '|' and ':'.
DataCols(r) == {c \in DOMAIN r : ~StartsWith(ColName(c), "_")}
C5_MatchKeysEqualIffEquivalent ==
  kPc.match => ((kKey1 = kKey2) <=> (kParts1 = kParts2))
C5_AllColumnsKeysEqualIffEquivalent ==
  kPc.all =>
    ((kAll1 = kAll2) <=>
       (/\ DataCols(kRec1) = DataCols(kRec2)
        /\ \A c \in DataCols(kRec1) : Trim(RawForm(kRec1[c])) = Trim(RawForm(kRec2[c]))))
\* C5 (as claimed): both equivalences together.
C5_KeysEqualIffEquivalent ==
  C5_MatchKeysEqualIffEquivalent /\ C5_AllColumnsKeysEqualIffEquivalent

\* C6: for a mapping with isExactMatch = false, two strings that differ only
\* in letter case or in leading/trailing whitespace give equal key components;
\* for a mapping with isExactMatch = true, equal components imply identical
\* raw string forms.
C6_PerMappingNormalisation ==
  kPc.match =>
    \A i \in 1..Len(kMaps) :
      LET v1 == Get(kRec1, kMaps[i].file1Column)
          v2 == Get(kRec2, kMaps[i].file2Column)
      IN /\ (/\ ~kMaps[i].isExactMatch
             /\ v1.t = "string" /\ v2.t = "string"
             /\ DifferOnlyInCaseOrBlanks(v1.s, v2.s))
              => kParts1[i] = kParts2[i]
         /\ (kMaps[i].isExactMatch /\ kParts1[i] = kParts2[i])
              => RawForm(v1) = RawForm(v2)

\* a fuzzy mapping equates " X" and "x" while an exact mapping on the same
\* pair keeps them apart
C6_Witness ==
  /\ kPc.match
  /\ kRec1.a = Str(<<" ", "X">>) /\ kRec2.a = Str(<<"x">>)
  /\ Len(kMaps) = 1 /\ ~kMaps[1].isExactMatch
  /\ kParts1[1] = kParts2[1] /\ kKey1 = kKey2

(* ---- claims about the detector's exclusions ---- *)

\* the row object r has no data column with a value
AllDataNull(r) ==
  IsObject(r) /\ \A c \in DataCols(r) : r[c].t \in {"null", "undefined"}

\* row r occurs in one of the groups
InSomeGroup(r, groups) ==
  \E k \in 1..Len(groups) : \E n \in 1..Len(groups[k].items) : groups[k].items[n] = r

\* C11 (as claimed): under the default policy (empties ignored) an input row
\* whose data columns are all null/undefined has the empty key and, when the
\* run is over, occurs in neither uniqueItems nor duplicates nor any
\* duplicate group.
C11_AllNullRecordsExcluded ==
  \A i \in 1..Len(dData) :
    (/\ dPc \in {"done", "threw"}
     /\ AllDataNull(dData[i])
     /\ dEntry = "generic" => dOpts.ignoreEmptyValues) =>
      /\ DupKeyOf(i) = <<>>
      /\ Count(dData[i], uniqueItems) = 0
      /\ Count(dData[i], duplicates) = 0
      /\ Count(dData[i], chunkResults) = 0
      /\ ~InSomeGroup(dData[i], duplicateGroups)

\* r without its internal (underscore) fields
Strip(r) == [c \in DataCols(r) |-> r[c]]
StripAll(q) == [i \in 1..Len(q) |-> Strip(q[i])]
StripGroups(groups) ==
  [k \in 1..Len(groups) |-> [key |-> groups[k].key, items |-> StripAll(groups[k].items)]]

\* the column names of keys that are not internal, in the order of keys
RECURSIVE DataKeys(_)
DataKeys(keys) ==
  IF keys = <<>> THEN <<>>
  ELSE (IF StartsWith(ColName(Head(keys)), "_") THEN <<>> ELSE <<Head(keys)>>)
         \o DataKeys(Tail(keys))

\* what the running entry point computes from the array data
DetectorResult(data, firstKeys) ==
  IF dEntry = "generic" THEN findDuplicates(data, [dOpts EXCEPT !.firstKeys = firstKeys])
  ELSE findDuplicatesInFile(data)

\* what the run has collected: findDuplicates keeps its duplicates in the
\* chunk results until the final combination
Collected ==
  [unique |-> uniqueItems, groups |-> duplicateGroups,
   duplicates |-> IF dEntry = "generic" THEN chunkResults ELSE duplicates]

\* C12 (as claimed): when a detector run is over, its uniqueItems, duplicates
\* and duplicate groups are, up to the internal fields of the rows, those the
\* same entry point computes from the input with every internal field removed.
C12_InternalFieldsIgnored ==
  dPc \in {"done", "threw"} =>
    LET plain == DetectorResult(StripAll(dData), DataKeys(dOpts.firstKeys))
    IN /\ StripAll(Collected.unique) = plain.unique
       /\ StripAll(Collected.duplicates) = plain.duplicates
       /\ StripGroups(Collected.groups) = plain.groups

\* the elements of data that are row objects, in order
WellFormed(data) == SubseqAt(data, {i \in 1..Len(data) : IsObject(data[i])}, 1)

\* Object.keys of the first element of data (rows here have one column)
FirstKeysOf(data) ==
  IF data = <<>> THEN <<>> ELSE CHOOSE p \in Perms(DOMAIN data[1]) : TRUE

\* C13 (as claimed): no detector run raises on an element that is not an
\* object, and when the run is over its uniqueItems, duplicates and groups are
\* those of the same entry point on the input without such elements.
C13_MalformedRecordsSkipped ==
  /\ dPc # "threwOnItem"
  /\ dPc \in {"done", "threw"} =>
       LET clean == WellFormed(dData)
           whole == DetectorResult(clean, FirstKeysOf(clean))
       IN /\ Collected.unique = whole.unique
          /\ Collected.duplicates = whole.duplicates
          /\ Collected.groups = whole.groups

----------------------------------------------------------------------------
(* processFiles: the array form of src/lib/reconciliation.ts and the       *)
(* streaming form of src/unnamed/part_006 with the file worker             *)

\* most chunks the worker cuts a sheet into
MaxSheetChunks == 2

\* chunkSize of the worker's loadData loop
workerChunkSize == 500

\* percent values are kept in units of 1/Scale percent, so that the factors
\* 0.02, 0.1, 0.15, 0.18, 0.2, 0.23 and 65/1000 stay integral
Scale == 100000

\* a value passed to onProgress as percent: a number, or NaN. NaN is what a
\* callback of processFiles passes on when compareUniqueItemStreams calls it
\* with a stage text where the percent belongs: base + "text" * factor
Pct(v) == [num |-> TRUE, v |-> v]
NaN == [num |-> FALSE, v |-> 0]

\* Math.round(a / b) for a >= 0, b > 0
Round(a, b) == (2 * a + b) \div (2 * b)

\* the callbacks processFiles wraps around onProgress, base + percent * factor:
\* the factor in hundredths, the percent in thousandths of a percent
Callback(base, hundredths, milli) == Pct(base * Scale + hundredths * milli)
Whole(p) == 1000 * p

\* the header row of both sheets
SheetHeaders == {"a", "b"}

\* a sheet name that the workbook lacks
MissingSheet == [found |-> FALSE, rows |-> 0, allEqual |-> FALSE, blank |-> FALSE]

\* a sheet: its number of data rows, whether all rows are equal (then the
\* first row is the only unique one) or pairwise different, and whether the
\* cell of column a is empty in the first data row
Sheets ==
  {s \in {[found |-> TRUE, rows |-> n, allEqual |-> q, blank |-> e] :
            n \in {0} \cup UNION {{workerChunkSize * (k - 1) + 1, workerChunkSize * k} :
                                   k \in 1..MaxSheetChunks},
            q \in BOOLEAN, e \in BOOLEAN} :
     ~(s.allEqual /\ s.rows \in {0, 1}) /\ ~(s.blank /\ s.rows = 0)}
  \cup {MissingSheet}

\* the unique rows among rows (from + 1)..to of a sheet
UniqueIn(sheet, from, to) ==
  IF ~sheet.allEqual THEN to - from ELSE IF from = 0 /\ to > 0 THEN 1 ELSE 0

\* the mapping lists of a run: none, a valid one, one naming a column that
\* file 1 lacks, one naming a column that file 2 lacks
RunMappings ==
  {<<>>, <<Mapping("a", "a", FALSE)>>, <<Mapping("z", "a", FALSE)>>,
   <<Mapping("a", "z", FALSE)>>}

\* validateColumnMappingsAgainstHeaders / validateColumnMappings: "" when the
\* mappings pass, else the message of the first failure
ValidationError(cols1, cols2, mappings) ==
  LET bad == {i \in 1..Len(mappings) :
                mappings[i].file1Column \notin cols1 \/ mappings[i].file2Column \notin cols2}
  IN IF bad = {} THEN ""
     ELSE LET i == CHOOSE j \in bad : \A k \in bad : j <= k
          IN IF mappings[i].file1Column \notin cols1
             THEN "Column not found in File 1"
             ELSE "Column not found in File 2"

\* the keys of the first data row of a sheet read by getSheetData:
\* sheet_to_json is called without defval, so that a row object has no key
\* for an empty cell
FirstRowKeys(sheet) == IF sheet.blank THEN SheetHeaders \ {"a"} ELSE SheetHeaders

\* ---- the worker (self.onmessage)

\* sendProgress(stage, percent) and the replies, as posted. The worker of the
\* repository posts progress and columns messages without originalType
\* (rWorkerTags = FALSE); the listener of getSheetColumnsWithWorker accepts
\* only replies that carry it. rWorkerTags = TRUE is a worker that echoes the
\* request type, which no revision in the repository does: it is drawn so
\* that the stages of the streaming form after the header requests are
\* reachable at all.
ProgressMsg(req, p) ==
  [type |-> "progress", percent |-> p,
   originalType |-> IF rWorkerTags THEN req.type ELSE "none"]
ProgressMsgs(req, ps) == [i \in 1..Len(ps) |-> ProgressMsg(req, ps[i])]
ColumnsMsg(req) ==
  [type |-> "columns", status |-> "success",
   originalType |-> IF rWorkerTags THEN req.type ELSE "none"]
ChunkMsg(n, u) == [type |-> "dataChunk", rows |-> n, unique |-> u]
ErrorMsg(req) == [type |-> "error", originalType |-> req.type]

\* the handler starts on the next request: "Preparing file..." and the read
WorkerReceive ==
  /\ wPc = "idle" /\ wInbox # <<>>
  /\ wReq' = Head(wInbox) /\ wInbox' = Tail(wInbox)
  /\ wOut' = Append(wOut, ProgressMsg(Head(wInbox), 5))
  /\ wPc' = "reading" /\ wSent' = 0
  /\ UNCHANGED <<rForm, rMaps, rSheets, rWorkerTags, rPc, rErr, rProgress, rListener,
                 rStream, rValidated, rRead, rDeduped, rUnique, rMapped, rCompared,
                 rIter, rFile2Chunks, kvars, mvars, dvars, postvars>>

\* the file is read (with or without a progress event of the FileReader) and
\* the workbook parsed; a sheet the workbook lacks is an error, else
\* loadColumns runs to its reply and loadData to the start of its chunk loop
\* or to the error of a sheet without data rows
WorkerFileRead(readEvent) ==
  /\ wPc = "reading"
  /\ LET sheet == rSheets[wReq.file]
         read == (IF readEvent THEN <<5 + Round(100, 10)>> ELSE <<>>) \o <<15, 15, 20>>
     IN IF ~sheet.found
        THEN /\ wOut' = wOut \o ProgressMsgs(wReq, read \o
                                 <<IF wReq.type = "loadColumns" THEN 30 ELSE 25>>)
                             \o <<ErrorMsg(wReq)>>
             /\ wPc' = "idle"
        ELSE IF wReq.type = "loadColumns"
        THEN /\ wOut' = wOut \o ProgressMsgs(wReq, read \o <<30, 60, 100>>)
                             \o <<ColumnsMsg(wReq)>>
             /\ wPc' = "idle"
        ELSE IF sheet.rows = 0
        THEN /\ wOut' = wOut \o ProgressMsgs(wReq, read \o <<25, 35>>) \o <<ErrorMsg(wReq)>>
             /\ wPc' = "idle"
        ELSE /\ wOut' = wOut \o ProgressMsgs(wReq, read \o <<25, 35, 35>>)
             /\ wPc' = "chunks"
  /\ UNCHANGED <<rForm, rMaps, rSheets, rWorkerTags, rPc, rErr, rProgress, rListener,
                 rStream, rValidated, rRead, rDeduped, rUnique, rMapped, rCompared,
                 rIter, rFile2Chunks, wInbox, wReq, wSent, kvars, mvars, dvars, postvars>>

\* one iteration of the loadData loop: a dataChunk and its progress
WorkerChunk ==
  /\ wPc = "chunks" /\ wSent < rSheets[wReq.file].rows
  /\ LET sheet == rSheets[wReq.file]
         chunkEnd == Min(wSent + workerChunkSize, sheet.rows)
     IN /\ wOut' = wOut \o <<ChunkMsg(chunkEnd - wSent, UniqueIn(sheet, wSent, chunkEnd)),
                             ProgressMsg(wReq, Min(35 + Round(chunkEnd * 60, sheet.rows), 95))>>
        /\ wSent' = chunkEnd
  /\ UNCHANGED <<rForm, rMaps, rSheets, rWorkerTags, rPc, rErr, rProgress, rListener,
                 rStream, rValidated, rRead, rDeduped, rUnique, rMapped, rCompared,
                 rIter, rFile2Chunks, wInbox, wPc, wReq, kvars, mvars, dvars, postvars>>

\* the loop is over: "All data processed and sent" and dataEnd
WorkerDataEnd ==
  /\ wPc = "chunks" /\ wSent >= rSheets[wReq.file].rows
  /\ wOut' = wOut \o <<ProgressMsg(wReq, 100), [type |-> "dataEnd"]>>
  /\ wPc' = "idle"
  /\ UNCHANGED <<rForm, rMaps, rSheets, rWorkerTags, rPc, rErr, rProgress, rListener,
                 rStream, rValidated, rRead, rDeduped, rUnique, rMapped, rCompared,
                 rIter, rFile2Chunks, wInbox, wReq, wSent, kvars, mvars, dvars, postvars>>

\* ---- processFiles, both forms

InitRun ==
  /\ rForm \in {"array", "stream"}
  /\ rMaps \in RunMappings
  /\ rSheets \in Sheets \X Sheets
  /\ rWorkerTags \in IF rForm = "stream" THEN BOOLEAN ELSE {FALSE}
  /\ rPc = "start" /\ rErr = "" /\ rProgress = <<>> /\ rListener = "none" /\ rStream = 0
  /\ rValidated = FALSE /\ rRead = <<0, 0>> /\ rDeduped = <<0, 0>> /\ rUnique = <<0, 0>>
  /\ rMapped = 0 /\ rCompared = 0 /\ rIter = <<0, 0>> /\ rFile2Chunks = 0
  /\ wInbox = <<>> /\ wPc = "idle" /\ wReq = <<>> /\ wSent = 0 /\ wOut = <<>>
  /\ IdleKey /\ IdleMatch /\ IdleDup /\ IdlePost

\* processFiles up to its first wait. Array form: getSheetData(file1) starts
\* its FileReader. Streaming form: getSheetColumnsWithWorker(file1) adds its
\* listener and posts loadColumns
RunStart ==
  /\ rPc = "start"
  /\ IF rMaps = <<>>
     THEN /\ rPc' = "rejected" /\ rErr' = "No column mappings provided"
          /\ UNCHANGED <<rProgress, rListener, wInbox>>
     ELSE IF rForm = "array"
     THEN /\ rProgress' = <<Pct(5 * Scale), Callback(5, 20, Whole(10))>>
          /\ rPc' = "a_read1"
          /\ UNCHANGED <<rErr, rListener, wInbox>>
     ELSE /\ rProgress' = <<Pct(0), Pct(1 * Scale)>>
          /\ rListener' = "columns"
          /\ wInbox' = Append(wInbox, [type |-> "loadColumns", file |-> 1])
          /\ rPc' = "s_hdr1"
          /\ UNCHANGED rErr
  /\ UNCHANGED <<rForm, rMaps, rSheets, rWorkerTags, rStream, rValidated, rRead,
                 rDeduped, rUnique, rMapped, rCompared, rIter, rFile2Chunks,
                 wPc, wReq, wSent, wOut, kvars, mvars, dvars, postvars>>

\* array form: reader.onload of getSheetData(file f); then processFiles goes
\* on to the next read, or to the validation against the first rows
ArrayFileLoaded(f) ==
  /\ rPc = (IF f = 1 THEN "a_read1" ELSE "a_read2")
  /\ LET base == IF f = 1 THEN 5 ELSE 30
         sheet == rSheets[f]
         opened == <<Callback(base, 20, Whole(30)), Callback(base, 20, Whole(40)),
                     Callback(base, 20, Whole(60))>>
         loaded == opened \o <<Callback(base, 20, Whole(80)), Callback(base, 20, Whole(100))>>
         error == ValidationError(FirstRowKeys(rSheets[1]), FirstRowKeys(rSheets[2]), rMaps)
     IN IF ~sheet.found
        THEN /\ rProgress' = rProgress \o SubSeq(opened, 1, 2)
             /\ rPc' = "rejected" /\ rErr' = "Sheet not found in workbook"
             /\ UNCHANGED <<rRead, rValidated>>
        ELSE IF sheet.rows = 0
        THEN /\ rProgress' = rProgress \o opened
             /\ rPc' = "rejected" /\ rErr' = "No data found in sheet"
             /\ UNCHANGED <<rRead, rValidated>>
        ELSE /\ rRead' = [rRead EXCEPT ![f] = sheet.rows]
             /\ IF f = 1
                THEN /\ rProgress' = rProgress \o loaded
                                       \o <<Pct(30 * Scale), Callback(30, 20, Whole(10))>>
                     /\ rPc' = "a_read2"
                     /\ UNCHANGED <<rErr, rValidated>>
                ELSE IF error # ""
                THEN /\ rProgress' = rProgress \o loaded \o <<Pct(55 * Scale)>>
                     /\ rPc' = "rejected" /\ rErr' = error
                     /\ UNCHANGED rValidated
                ELSE /\ rProgress' = rProgress \o loaded \o <<Pct(55 * Scale), Pct(60 * Scale)>>
                     /\ rValidated' = TRUE
                     /\ rPc' = "a_dedup1"
                     /\ UNCHANGED rErr
  /\ UNCHANGED <<rForm, rMaps, rSheets, rWorkerTags, rListener, rStream, rDeduped,
                 rUnique, rMapped, rCompared, rIter, rFile2Chunks,
                 wInbox, wPc, wReq, wSent, wOut, kvars, mvars, dvars, postvars>>

\* array form: one iteration of findDuplicatesInFile's loop over file f
ArrayDedupChunk(f) ==
  /\ rPc = (IF f = 1 THEN "a_dedup1" ELSE "a_dedup2")
  /\ rDeduped[f] < rSheets[f].rows
  /\ LET total == rSheets[f].rows
         end == Min(rDeduped[f] + chunkSize, total)
     IN /\ rDeduped' = [rDeduped EXCEPT ![f] = end]
        /\ rUnique' = [rUnique EXCEPT ![f] = @ + UniqueIn(rSheets[f], rDeduped[f], end)]
        /\ rProgress' = Append(rProgress,
             Callback(IF f = 1 THEN 60 ELSE 70, 10, Whole(Min(100, Round(end * 100, total)))))
  /\ UNCHANGED <<rForm, rMaps, rSheets, rWorkerTags, rPc, rErr, rListener, rStream,
                 rValidated, rRead, rMapped, rCompared, rIter, rFile2Chunks,
                 wInbox, wPc, wReq, wSent, wOut, kvars, mvars, dvars, postvars>>

\* array form: findDuplicatesInFile returns and processFiles announces the
\* next stage
ArrayDedupReturn(f) ==
  /\ rPc = (IF f = 1 THEN "a_dedup1" ELSE "a_dedup2")
  /\ rDeduped[f] >= rSheets[f].rows
  /\ rProgress' = Append(rProgress, Pct((IF f = 1 THEN 70 ELSE 80) * Scale))
  /\ rPc' = (IF f = 1 THEN "a_dedup2" ELSE "a_map2")
  /\ UNCHANGED <<rForm, rMaps, rSheets, rWorkerTags, rErr, rListener, rStream,
                 rValidated, rRead, rDeduped, rUnique, rMapped, rCompared, rIter,
                 rFile2Chunks, wInbox, wPc, wReq, wSent, wOut, kvars, mvars, dvars, postvars>>

\* array form: one iteration of compareFilesWithMappings' map-building loop
ArrayMapChunk ==
  /\ rPc = "a_map2" /\ rMapped < rUnique[2]
  /\ rMapped' = Min(rMapped + chunkSize, rUnique[2])
  /\ UNCHANGED <<rForm, rMaps, rSheets, rWorkerTags, rPc, rErr, rProgress, rListener,
                 rStream, rValidated, rRead, rDeduped, rUnique, rCompared, rIter,
                 rFile2Chunks, wInbox, wPc, wReq, wSent, wOut, kvars, mvars, dvars, postvars>>

\* array form: the map is built
ArrayMapDone ==
  /\ rPc = "a_map2" /\ rMapped >= rUnique[2]
  /\ rPc' = "a_cmp1"
  /\ UNCHANGED <<rForm, rMaps, rSheets, rWorkerTags, rErr, rProgress, rListener,
                 rStream, rValidated, rRead, rDeduped, rUnique, rMapped, rCompared,
                 rIter, rFile2Chunks, wInbox, wPc, wReq, wSent, wOut, kvars, mvars, dvars, postvars>>

\* array form: one iteration of compareFilesWithMappings' loop over file 1
ArrayCompareChunk ==
  /\ rPc = "a_cmp1" /\ rCompared < rUnique[1]
  /\ LET end == Min(rCompared + chunkSize, rUnique[1])
     IN /\ rCompared' = end
        /\ rProgress' = Append(rProgress,
             Callback(80, 18, Whole(Min(100, Round(end * 100, rUnique[1])))))
  /\ UNCHANGED <<rForm, rMaps, rSheets, rWorkerTags, rPc, rErr, rListener, rStream,
                 rValidated, rRead, rDeduped, rUnique, rMapped, rIter, rFile2Chunks,
                 wInbox, wPc, wReq, wSent, wOut, kvars, mvars, dvars, postvars>>

\* array form: the comparison returns; summary and result
ArrayFinish ==
  /\ rPc = "a_cmp1" /\ rCompared >= rUnique[1]
  /\ rProgress' = rProgress \o <<Pct(98 * Scale), Pct(100 * Scale)>>
  /\ rPc' = "done"
  /\ UNCHANGED <<rForm, rMaps, rSheets, rWorkerTags, rErr, rListener, rStream,
                 rValidated, rRead, rDeduped, rUnique, rMapped, rCompared, rIter,
                 rFile2Chunks, wInbox, wPc, wReq, wSent, wOut, kvars, mvars, dvars, postvars>>

\* ---- streaming form: the listeners on the worker

\* the filter at the head of getSheetColumnsWithWorker's messageListener
PassesColumnsFilter(msg) ==
  ~(msg.originalType # "loadColumns" /\ msg.type # "progress" /\ msg.type # "error")

\* the listener returns without effect: the message fails the filter, or it
\* is a progress or error message of another origin
HeaderMessageIgnored ==
  /\ rListener = "columns" /\ wOut # <<>>
  /\ LET msg == Head(wOut)
     IN \/ ~PassesColumnsFilter(msg)
        \/ msg.type \in {"progress", "error"} /\ msg.originalType # "loadColumns"
  /\ wOut' = Tail(wOut)
  /\ UNCHANGED <<rForm, rMaps, rSheets, rWorkerTags, rPc, rErr, rProgress, rListener,
                 rStream, rValidated, rRead, rDeduped, rUnique, rMapped, rCompared,
                 rIter, rFile2Chunks, wInbox, wPc, wReq, wSent, kvars, mvars, dvars, postvars>>

\* a progress message of loadColumns: 1 + percent * 0.02 or 3 + percent * 0.02
HeaderProgress ==
  /\ rListener = "columns" /\ wOut # <<>>
  /\ Head(wOut).type = "progress" /\ Head(wOut).originalType = "loadColumns"
  /\ rProgress' = Append(rProgress,
       Callback(IF rPc = "s_hdr1" THEN 1 ELSE 3, 2, Whole(Head(wOut).percent)))
  /\ wOut' = Tail(wOut)
  /\ UNCHANGED <<rForm, rMaps, rSheets, rWorkerTags, rPc, rErr, rListener,
                 rStream, rValidated, rRead, rDeduped, rUnique, rMapped, rCompared,
                 rIter, rFile2Chunks, wInbox, wPc, wReq, wSent, kvars, mvars, dvars, postvars>>

\* an error message of loadColumns rejects the header request, and processFiles
HeaderError ==
  /\ rListener = "columns" /\ wOut # <<>>
  /\ Head(wOut).type = "error" /\ Head(wOut).originalType = "loadColumns"
  /\ rListener' = "none" /\ rPc' = "rejected" /\ rErr' = "Worker error loading columns"
  /\ wOut' = Tail(wOut)
  /\ UNCHANGED <<rForm, rMaps, rSheets, rWorkerTags, rProgress,
                 rStream, rValidated, rRead, rDeduped, rUnique, rMapped, rCompared,
                 rIter, rFile2Chunks, wInbox, wPc, wReq, wSent, kvars, mvars, dvars, postvars>>

\* the columns reply passes the filter: the request resolves. After file 1
\* processFiles requests the headers of file 2; after file 2 it validates the
\* mappings, creates the (lazy) data streams and duplicate finders, and
\* compareUniqueItemStreams starts to draw from the stream of file 2, whose
\* generator posts loadData
HeaderResolved ==
  /\ rListener = "columns" /\ wOut # <<>>
  /\ PassesColumnsFilter(Head(wOut))
  /\ Head(wOut).type = "columns" /\ Head(wOut).status = "success"
  /\ wOut' = Tail(wOut)
  /\ LET error == ValidationError(SheetHeaders, SheetHeaders, rMaps)
     IN IF rPc = "s_hdr1"
        THEN /\ rProgress' = Append(rProgress, Pct(3 * Scale))
             /\ wInbox' = Append(wInbox, [type |-> "loadColumns", file |-> 2])
             /\ rPc' = "s_hdr2"
             /\ UNCHANGED <<rErr, rListener, rStream, rValidated>>
        ELSE IF error # ""
        THEN /\ rPc' = "rejected" /\ rErr' = error /\ rListener' = "none"
             /\ UNCHANGED <<rProgress, rStream, rValidated, wInbox>>
        ELSE /\ rValidated' = TRUE
             /\ rProgress' = rProgress \o
                  <<Pct(5 * Scale), Pct(45 * Scale), Pct(60 * Scale), Pct(75 * Scale),
                    NaN>>
             /\ wInbox' = Append(wInbox, [type |-> "loadData", file |-> 2])
             /\ rListener' = "data" /\ rStream' = 2 /\ rPc' = "s_file2"
             /\ UNCHANGED rErr
  /\ UNCHANGED <<rForm, rMaps, rSheets, rWorkerTags, rRead, rDeduped, rUnique,
                 rMapped, rCompared, rIter, rFile2Chunks, wPc, wReq, wSent,
                 kvars, mvars, dvars, postvars>>

\* getSheetDataStreamed receives a progress message: 5 + percent * 0.2 for
\* file 1, 25 + percent * 0.2 for file 2
DataProgress ==
  /\ rListener = "data" /\ wOut # <<>> /\ Head(wOut).type = "progress"
  /\ rProgress' = Append(rProgress,
       Callback(IF rStream = 1 THEN 5 ELSE 25, 20, Whole(Head(wOut).percent)))
  /\ wOut' = Tail(wOut)
  /\ UNCHANGED <<rForm, rMaps, rSheets, rWorkerTags, rPc, rErr, rListener,
                 rStream, rValidated, rRead, rDeduped, rUnique, rMapped, rCompared,
                 rIter, rFile2Chunks, wInbox, wPc, wReq, wSent, kvars, mvars, dvars, postvars>>

\* a dataChunk is yielded to processStreamAndYieldUniques, which passes the
\* unique rows (if any) on to compareUniqueItemStreams and, when asked for the
\* next chunk, counts the iteration and reports chunkIteration % 100
DataChunk ==
  /\ rListener = "data" /\ wOut # <<>> /\ Head(wOut).type = "dataChunk"
  /\ LET msg == Head(wOut)
         f == rStream
         iter == rIter[f] + 1
         compared == rCompared + msg.unique
         compare ==
           IF msg.unique = 0 THEN <<>>
           ELSE IF f = 2
           THEN <<Callback(75, 23, Whole(Min(30, rFile2Chunks + 1)))>>
           ELSE <<Callback(75, 23, 30000 + Min(65000, (compared % 1000) * 65))>>
         dedupe == <<Callback(IF f = 1 THEN 45 ELSE 60, 15, Whole(iter % 100))>>
     IN /\ rRead' = [rRead EXCEPT ![f] = @ + msg.rows]
        /\ rDeduped' = [rDeduped EXCEPT ![f] = @ + msg.rows]
        /\ rUnique' = [rUnique EXCEPT ![f] = @ + msg.unique]
        /\ rMapped' = IF f = 2 THEN rMapped + msg.unique ELSE rMapped
        /\ rFile2Chunks' = IF f = 2 /\ msg.unique > 0 THEN rFile2Chunks + 1 ELSE rFile2Chunks
        /\ rCompared' = IF f = 1 THEN compared ELSE rCompared
        /\ rIter' = [rIter EXCEPT ![f] = iter]
        /\ rProgress' = rProgress \o compare \o dedupe
  /\ wOut' = Tail(wOut)
  /\ UNCHANGED <<rForm, rMaps, rSheets, rWorkerTags, rPc, rErr, rListener, rStream,
                 rValidated, wInbox, wPc, wReq, wSent, kvars, mvars, dvars, postvars>>

\* dataEnd ends the stream. File 2: the map is built and the comparison draws
\* from the stream of file 1, whose generator posts loadData. File 1: the
\* comparison returns, then summary and result
DataEnd ==
  /\ rListener = "data" /\ wOut # <<>> /\ Head(wOut).type = "dataEnd"
  /\ wOut' = Tail(wOut)
  /\ IF rStream = 2
     THEN /\ rProgress' = Append(rProgress, NaN)
          /\ wInbox' = Append(wInbox, [type |-> "loadData", file |-> 1])
          /\ rStream' = 1 /\ rPc' = "s_file1"
          /\ UNCHANGED rListener
     ELSE /\ rProgress' = rProgress \o
               <<NaN, NaN, Pct(98 * Scale), Pct(100 * Scale)>>
          /\ rListener' = "none" /\ rStream' = 0 /\ rPc' = "done"
          /\ UNCHANGED wInbox
  /\ UNCHANGED <<rForm, rMaps, rSheets, rWorkerTags, rErr, rValidated, rRead,
                 rDeduped, rUnique, rMapped, rCompared, rIter, rFile2Chunks,
                 wPc, wReq, wSent, kvars, mvars, dvars, postvars>>

\* an error message of loadData: the stream throws and processFiles rejects
DataError ==
  /\ rListener = "data" /\ wOut # <<>> /\ Head(wOut).type = "error"
  /\ Head(wOut).originalType \in {"loadData", "none"}
  /\ wOut' = Tail(wOut)
  /\ rListener' = "none" /\ rPc' = "rejected"
  /\ rErr' = "Worker error processing sheet data"
  /\ UNCHANGED <<rForm, rMaps, rSheets, rWorkerTags, rProgress, rStream, rValidated,
                 rRead, rDeduped, rUnique, rMapped, rCompared, rIter, rFile2Chunks,
                 wInbox, wPc, wReq, wSent, kvars, mvars, dvars, postvars>>

NextRun ==
  \/ RunStart
  \/ \E f \in {1, 2} : ArrayFileLoaded(f) \/ ArrayDedupChunk(f) \/ ArrayDedupReturn(f)
  \/ ArrayMapChunk \/ ArrayMapDone \/ ArrayCompareChunk \/ ArrayFinish
  \/ WorkerReceive \/ (\E ev \in BOOLEAN : WorkerFileRead(ev)) \/ WorkerChunk \/ WorkerDataEnd
  \/ HeaderMessageIgnored \/ HeaderProgress \/ HeaderError \/ HeaderResolved
  \/ DataProgress \/ DataChunk \/ DataEnd \/ DataError

SpecRun == InitRun /\ [][NextRun]_vars

(* ---- claims about processFiles ---- *)

\* the run is over: processFiles has returned its result or thrown
Terminal == rPc \in {"done", "rejected"}

\* the mapping list is empty or names a column that a header row lacks
InvalidMappings ==
  rMaps = <<>> \/ ValidationError(SheetHeaders, SheetHeaders, rMaps) # ""

\* both sheets exist and hold data rows
SheetsHaveData == \A f \in {1, 2} : rSheets[f].found /\ rSheets[f].rows > 0

\* the messages of the validation failures
ValidationMessages ==
  {"No column mappings provided", "Column not found in File 1", "Column not found in File 2"}

\* C14 (as claimed): on a run with an empty or invalid mapping list (over two
\* sheets that hold data) no row is ever loaded, deduplicated or matched, and
\* when the run is over processFiles has failed with a validation message.
C14_FailFastValidation ==
  (InvalidMappings /\ SheetsHaveData) =>
    /\ rRead = <<0, 0>> /\ rDeduped = <<0, 0>> /\ rMapped = 0 /\ rCompared = 0
    /\ Terminal => (rPc = "rejected" /\ rErr \in ValidationMessages)

C16_StagesInOrder ==
  /\ (rRead[1] > 0 \/ rRead[2] > 0) => rValidated
  /\ rDeduped[2] > 0 => (rRead[1] = rSheets[1].rows /\ rDeduped[1] = rSheets[1].rows)

\* C17 (as claimed): a run of processFiles that is not over can always take
\* a further step, the worker answering every request posted to it: the run
\* never waits for a message that will not come.
C17_RunNeverWaitsForever == Terminal \/ ENABLED NextRun

\* C18 (as claimed, for processFiles): processFiles never finishes by
\* throwing, that is, by a rejected promise.
C18_NoThrowPastBoundary == rPc # "rejected"

\* C30 (as claimed): when every mapped column is a column of its sheet's
\* header row, processFiles raises no "Column ... not found" error, whatever
\* the rows hold: an empty cell in a mapped column of the first data row does
\* not matter.
C30_OnlyMissingColumnsRejected ==
  (rMaps # <<>> /\ ValidationError(SheetHeaders, SheetHeaders, rMaps) = "") =>
    rErr \notin {"Column not found in File 1", "Column not found in File 2"}

----------------------------------------------------------------------------
(* processArrayInChunks(array, chunkSize, processor, onProgress)            *)

\* the arrays handed in: every sequence of at most MaxArrayLen items, and one
\* value that is not an array
ChunkInputs ==
  {[isArray |-> TRUE, items |-> a] :
     a \in UNION {[1..n -> {"x", "y"}] : n \in 0..MaxArrayLen}}
  \cup {[isArray |-> FALSE, items |-> <<>>]}

\* Math.ceil(totalItems / chunkSize)
Ceil(totalItems, size) == (totalItems + size - 1) \div size

\* end of the slice without Math.min
SliceEnd_NoMin(start, size, totalItems) == start + size

\* const end = Math.min(start + chunkSize, totalItems)
SliceEnd(start, size, totalItems) == Min(start + size, totalItems)

\* array.slice(start, end), which clamps end to the length of the array
Slice(array, start, end) == SubSeq(array, start + 1, Min(end, Len(array)))

\* what the processor may return for one chunk: nothing, one result per item,
\* or one result per item and a further one; each result names its chunk
ProcessorResults(chunk, chunkIndex) ==
  LET each == [k \in 1..Len(chunk) |-> [chunk |-> chunkIndex, item |-> chunk[k]]]
  IN {<<>>, each, Append(each, [chunk |-> chunkIndex, item |-> "more"])}

InitChunks ==
  /\ cArray \in ChunkInputs /\ cChunkSize \in 1..MaxChunkSize /\ cOnProgress \in BOOLEAN
  /\ cPc = "start" /\ cI = 0 /\ cResult = <<>> /\ cCalls = <<>> /\ cProgress = <<>>
  /\ IdleKey /\ IdleMatch /\ IdleDup /\ IdleRun /\ IdleExport /\ IdleLate

\* the call up to the first chunk: the array test, totalChunks, the loop test
ChunkCall ==
  /\ cPc = "start"
  /\ cPc' = IF ~cArray.isArray THEN "threw"
            ELSE IF 0 < Ceil(Len(cArray.items), cChunkSize) THEN "loop" ELSE "done"
  /\ UNCHANGED <<cArray, cChunkSize, cOnProgress, cI, cResult, cCalls, cProgress,
                 kvars, mvars, dvars, rvars, xvars, latevars>>

\* one pass of the loop body in which the processor returns: slice, await
\* processor(chunk, i), result.push, onProgress(end, totalItems), and either
\* the wait on setTimeout or, after the last chunk, the return
ChunkProcess ==
  /\ cPc = "loop"
  /\ LET totalItems == Len(cArray.items)
         totalChunks == Ceil(totalItems, cChunkSize)
         start == cI * cChunkSize
         end == SliceEnd(start, cChunkSize, totalItems)
         chunk == Slice(cArray.items, start, end)
     IN \E processedChunk \in ProcessorResults(chunk, cI) :
          /\ cCalls' = Append(cCalls, [chunk |-> chunk, index |-> cI,
                                       threw |-> FALSE, out |-> processedChunk])
          /\ cResult' = cResult \o processedChunk
          /\ cProgress' = IF cOnProgress THEN Append(cProgress, <<end, totalItems>>)
                          ELSE cProgress
          /\ cPc' = IF cI < totalChunks - 1 THEN "yield" ELSE "done"
  /\ UNCHANGED <<cArray, cChunkSize, cOnProgress, cI, kvars, mvars, dvars, rvars, xvars, latevars>>

\* one pass of the loop body in which the processor throws or its promise is
\* rejected: the call is rejected with the processor's error
ChunkProcessorThrows ==
  /\ cPc = "loop"
  /\ LET totalItems == Len(cArray.items)
         start == cI * cChunkSize
         chunk == Slice(cArray.items, start, SliceEnd(start, cChunkSize, totalItems))
     IN cCalls' = Append(cCalls, [chunk |-> chunk, index |-> cI,
                                  threw |-> TRUE, out |-> <<>>])
  /\ cPc' = "threw"
  /\ UNCHANGED <<cArray, cChunkSize, cOnProgress, cI, cResult, cProgress,
                 kvars, mvars, dvars, rvars, xvars, latevars>>

\* the timer of the yield fires: i++ and the loop test (true, because the
\* yield is taken only before a further chunk)
ChunkYield ==
  /\ cPc = "yield"
  /\ cI' = cI + 1
  /\ cPc' = "loop"
  /\ UNCHANGED <<cArray, cChunkSize, cOnProgress, cResult, cCalls, cProgress,
                 kvars, mvars, dvars, rvars, xvars, latevars>>

NextChunks == ChunkCall \/ ChunkProcess \/ ChunkProcessorThrows \/ ChunkYield

\* the processor's promise settles and the zero-delay timer fires: a step
\* that can be taken is taken
SpecChunks == InitChunks /\ [][NextChunks]_vars /\ WF_vars(NextChunks)

----------------------------------------------------------------------------
(* claims about processArrayInChunks                                        *)

ChunkTerminated == cPc \in {"done", "threw"}

\* the chunks of the first n calls, one after the other
RECURSIVE ChunksOf(_)
ChunksOf(n) == IF n = 0 THEN <<>> ELSE ChunksOf(n - 1) \o cCalls[n].chunk

\* the results of the first n calls, one after the other
RECURSIVE OutsOf(_)
OutsOf(n) == IF n = 0 THEN <<>> ELSE OutsOf(n - 1) \o cCalls[n].out

ChunkContract ==
  LET items == cArray.items
      returned == {k \in 1..Len(cCalls) : ~cCalls[k].threw}
  IN /\ \A k \in 1..Len(cCalls) :
          /\ cCalls[k].index = k - 1
          /\ Len(cCalls[k].chunk) \in 1..cChunkSize
          /\ ChunksOf(k) = SubSeq(items, 1, Len(ChunksOf(k)))
          /\ cCalls[k].threw => k = Len(cCalls)
     /\ cResult = OutsOf(Len(cCalls))
     /\ Len(cProgress) = IF cOnProgress THEN Cardinality(returned) ELSE 0
     /\ \A k \in 1..Len(cProgress) :
          /\ cProgress[k] = <<Len(ChunksOf(k)), Len(items)>>
          /\ k > 1 => cProgress[k - 1][1] < cProgress[k][1]
     /\ cPc = "done" =>
          /\ ChunksOf(Len(cCalls)) = items
          /\ returned = 1..Len(cCalls)
          /\ cProgress # <<>> => cProgress[Len(cProgress)][1] = Len(items)

\* C19: for an array and a chunk size of at least 1 the call ends (returns, or
\* is rejected with the processor's error); the processor is called once per
\* consecutive slice, in order, on slices of at most chunkSize items that cover
\* the array exactly once; the result is the concatenation of the processor's
\* results in order; onProgress is called once after each slice with (items
\* processed so far, total), strictly increasing and equal to total at the end.
C19_ChunkContract == [](cArray.isArray => ChunkContract) /\ <>ChunkTerminated

\* a finished call of several chunks with a short last chunk, a progress
\* callback, and a processor whose results differ in number from its input
C19_Witness ==
  /\ cPc = "done" /\ cOnProgress /\ Len(cCalls) >= 2
  /\ Len(cCalls[Len(cCalls)].chunk) < cChunkSize
  /\ Len(cResult) # Len(cArray.items)

----------------------------------------------------------------------------
(* exportToExcel(data, fileName) and exportCategoryToExcel(data, category,  *)
(* fileName)                                                                *)

\* the dataset categories, in the order exportToExcel writes them
Categories == <<"matched", "inFile1Only", "inFile2Only", "duplicatesInFile1",
                "duplicatesInFile2">>

\* the items of one category: rows and null entries
CategoryItems == UNION {[1..n -> {"row", "null"}] : n \in 0..MaxExportRows}

\* the data handed to an export: absent, or the five category arrays and, for
\* each file, whether duplicate groups with at least one row are present
ExportData ==
  {[present |-> FALSE, rows |-> <<>>, groups |-> <<FALSE, FALSE>>]}
  \cup {[present |-> TRUE, rows |-> r, groups |-> g] :
          r \in [{Categories[i] : i \in 1..Len(Categories)} -> CategoryItems],
          g \in BOOLEAN \X BOOLEAN}

\* sheet names of the full report
FullSheetName(c) ==
  CASE c = "matched" -> "Matched"
    [] c = "inFile1Only" -> "In File 1 Only"
    [] c = "inFile2Only" -> "In File 2 Only"
    [] c = "duplicatesInFile1" -> "Duplicates in File 1"
    [] c = "duplicatesInFile2" -> "Duplicates in File 2"

\* sheet names of the single-category export
CategorySheetName(c) ==
  CASE c = "matched" -> "Matched Transactions"
    [] c = "inFile1Only" -> "File 1 Only"
    [] c = "inFile2Only" -> "File 2 Only"
    [] c = "duplicatesInFile1" -> "Duplicates in File 1"
    [] c = "duplicatesInFile2" -> "Duplicates in File 2"

\* data.filter(Boolean) / data.filter(item => item !== null && ...)
RECURSIVE FilterRows(_)
FilterRows(items) ==
  IF items = <<>> THEN <<>>
  ELSE (IF Head(items) = "null" THEN <<>> ELSE <<Head(items)>>) \o FilterRows(Tail(items))

\* a sheet appended to the workbook: its name, its data rows, its message row
Sheet(name, rows, note) == [name |-> name, rows |-> rows, note |-> note]

\* processSheetData(workbook, sheetName, data, ...): the sheet it appends
processSheetData(sheetName, data) ==
  IF Len(data) = 0 THEN Sheet(sheetName, 0, "No data available")
  ELSE IF Len(FilterRows(data)) = 0 THEN Sheet(sheetName, 0, "No valid data available")
  ELSE Sheet(sheetName, Len(FilterRows(data)), "")

\* the percent processSheetData reports on its single pass, (startProgress +
\* endProgress) / 2, in hundredths of a percent; the two placeholder sheets
\* are appended without a report
SheetProgress(data, startProgress, endProgress) ==
  IF Len(FilterRows(data)) = 0 THEN <<>> ELSE <<(startProgress + endProgress) \div 2>>

\* startProgress and endProgress of the five category blocks of exportToExcel
FullProgressRange == <<<<1000, 3500>>, <<3500, 5500>>, <<5500, 7500>>, <<7500, 8500>>,
                       <<8500, 9500>>>>

InitExport ==
  /\ xForm \in {"full", "category"}
  /\ xCategory \in IF xForm = "full" THEN {"none"}
                   ELSE {Categories[i] : i \in 1..Len(Categories)} \cup {"full"}
  /\ xData \in ExportData
  /\ xPc = "start" /\ xNext = 0 /\ xSheets = <<>> /\ xResult = "none" /\ xProgress = <<>>
  /\ IdleKey /\ IdleMatch /\ IdleDup /\ IdleRun /\ IdleChunks /\ IdleLate

\* exportToExcel up to the summary sheet; absent data is caught by the outer
\* try and returned as a failure
ExportStart ==
  /\ xForm = "full" /\ xPc = "start"
  /\ IF ~xData.present
       THEN /\ xPc' = "returned" /\ xResult' = "failure" /\ UNCHANGED <<xSheets, xNext>>
            /\ xProgress' = xProgress \o <<0, 10000>>
       ELSE /\ xSheets' = <<Sheet("Summary", 0, "")>>
            /\ xPc' = "sheets" /\ xNext' = 1 /\ UNCHANGED xResult
            /\ xProgress' = xProgress \o <<0, 500>>
  /\ UNCHANGED <<xForm, xCategory, xData, kvars, mvars, dvars, rvars, cvars, latevars>>

\* exportToExcel, one category block: processSheetData if the array has
\* items, otherwise only a progress report
ExportSheet ==
  /\ xForm = "full" /\ xPc = "sheets" /\ xNext \in 1..Len(Categories)
  /\ LET data == xData.rows[Categories[xNext]]
         range == FullProgressRange[xNext]
     IN /\ xSheets' = IF Len(data) > 0
                        THEN Append(xSheets, processSheetData(FullSheetName(Categories[xNext]), data))
                        ELSE xSheets
        /\ xProgress' = xProgress \o (IF Len(data) > 0 THEN SheetProgress(data, range[1], range[2])
                                       ELSE <<range[2]>>)
  /\ xNext' = xNext + 1
  /\ UNCHANGED <<xForm, xCategory, xData, xPc, xResult, kvars, mvars, dvars, rvars, cvars, latevars>>

\* exportToExcel, the two duplicate-group blocks
ExportGroupsSheet ==
  /\ xForm = "full" /\ xPc = "sheets" /\ xNext = Len(Categories) + 1
  /\ xSheets' = xSheets
        \o (IF xData.groups[1] THEN <<Sheet("Duplicate Groups File 1", 1, "")>> ELSE <<>>)
        \o (IF xData.groups[2] THEN <<Sheet("Duplicate Groups File 2", 1, "")>> ELSE <<>>)
  /\ xProgress' = xProgress
        \o (IF xData.groups[1] THEN <<9125>> ELSE <<>>)
        \o (IF xData.groups[2] THEN <<9375>> ELSE <<>>)
        \o <<9500>>
  /\ xPc' = "write"
  /\ UNCHANGED <<xForm, xCategory, xData, xNext, xResult, kvars, mvars, dvars, rvars, cvars, latevars>>

\* exportCategoryToExcel up to the summary sheet; category "full" hands over
\* to exportToExcel, which starts a workbook of its own
CategoryStart ==
  /\ xForm = "category" /\ xPc = "start"
  /\ IF ~xData.present
       THEN /\ xPc' = "returned" /\ xResult' = "failure" /\ UNCHANGED <<xForm, xSheets>>
            /\ xProgress' = <<0, 10000>>
       ELSE IF xCategory = "full"
       THEN /\ xForm' = "full" /\ xSheets' = <<>> /\ UNCHANGED <<xPc, xResult>>
            /\ xProgress' = <<0, 2000>>
       ELSE /\ xSheets' = <<Sheet("Summary", 0, "")>>
            /\ xPc' = "sheets" /\ UNCHANGED <<xForm, xResult>>
            /\ xProgress' = <<0, 2000>>
  /\ UNCHANGED <<xCategory, xData, xNext, kvars, mvars, dvars, rvars, cvars, latevars>>

\* exportCategoryToExcel, the switch and the category sheet: the duplicate
\* categories add their groups first; the category's rows go to
\* processSheetData, and a category without rows gets a sheet with a message
CategorySheets ==
  /\ xForm = "category" /\ xPc = "sheets"
  /\ LET categoryData == FilterRows(xData.rows[xCategory])
         sheetName == CategorySheetName(xCategory)
         withGroups == \/ xCategory = "duplicatesInFile1" /\ xData.groups[1]
                       \/ xCategory = "duplicatesInFile2" /\ xData.groups[2]
     IN /\ xSheets' = xSheets
              \o (IF withGroups THEN <<Sheet("Duplicate Groups", 1, "")>> ELSE <<>>)
              \o (IF Len(categoryData) > 0 THEN <<processSheetData(sheetName, categoryData)>>
                  ELSE <<Sheet(sheetName, 0, "No data available for this category")>>)
        /\ xProgress' = xProgress
              \o (IF withGroups THEN <<5000>> ELSE <<>>)
              \o (IF Len(categoryData) > 0 THEN SheetProgress(categoryData, 3000, 8000)
                  ELSE <<8000>>)
              \o <<9000>>
  /\ xPc' = "write"
  /\ UNCHANGED <<xForm, xCategory, xData, xNext, xResult, kvars, mvars, dvars, rvars, cvars, latevars>>

\* safelyWriteWorkbook and the blob: XLSX.write succeeds, or it throws and
\* the export returns a failure
ExportWrite ==
  /\ xPc = "write"
  /\ xResult' \in {"success", "failure"}
  /\ xProgress' = xProgress \o <<9500, 10000>>
  /\ xPc' = "returned"
  /\ UNCHANGED <<xForm, xCategory, xData, xNext, xSheets, kvars, mvars, dvars, rvars, cvars, latevars>>

NextExport ==
  \/ ExportStart \/ ExportSheet \/ ExportGroupsSheet
  \/ CategoryStart \/ CategorySheets \/ ExportWrite

SpecExport == InitExport /\ [][NextExport]_vars

----------------------------------------------------------------------------
(* claims about the exports                                                 *)

\* the categories a finished export covers
ExportedCategories ==
  IF xForm = "full" THEN {Categories[i] : i \in 1..Len(Categories)} ELSE {xCategory}

ExportedSheetName(c) == IF xForm = "full" THEN FullSheetName(c) ELSE CategorySheetName(c)

SheetsNamed(name) == {i \in 1..Len(xSheets) : xSheets[i].name = name}

\* C20 (as claimed): every export that returns success holds exactly one
\* sheet for each exported category, whatever its row count, and the sheet of
\* a category without rows holds a 'no data' message.
C20_SheetPerCategory ==
  xResult = "success" =>
    \A c \in ExportedCategories :
       /\ Cardinality(SheetsNamed(ExportedSheetName(c))) = 1
       /\ \A i \in SheetsNamed(ExportedSheetName(c)) :
            FilterRows(xData.rows[c]) = <<>> =>
              (xSheets[i].rows = 0 /\ xSheets[i].note # "")

----------------------------------------------------------------------------
(* processMatchedItem(item)                                                 *)

\* `File2_${key}`
Prefixed(key) ==
  CASE key = "a" -> "File2_a"
    [] key = "b" -> "File2_b"
    [] key = "File2_a" -> "File2_File2_a"

\* Object.entries of the records of dataset 2: each set of the fields a, b in
\* each order, with each choice of values
File2Entries ==
  UNION {{e \in [1..n -> {"a", "b"} \X {"1", "2"}] :
            \A i, j \in 1..n : i # j => e[i][1] # e[j][1]} : n \in 0..2}

\* the matched rows: { ...item1, _matchedWith: item2 }, item1 with any of the
\* columns a, b, File2_a
MatchedRows ==
  {row @@ ("_matchedWith" :> entries) :
     row \in UNION {[cols -> {"1", "2"}] : cols \in SUBSET {"a", "b", "File2_a"}},
     entries \in File2Entries}

\* const { _matchedWith, ...mainItem } = item
MainItem(item) == [c \in DOMAIN item \ {"_matchedWith"} |-> item[c]]

\* the forEach over Object.entries(_matchedWith): a field is added under its
\* prefixed name unless its own name is a key of mainItem
RECURSIVE AddFile2Fields(_, _)
AddFile2Fields(mainItem, entries) ==
  IF entries = <<>> THEN mainItem
  ELSE LET key == Head(entries)[1]
           value == Head(entries)[2]
           next == IF key \in DOMAIN mainItem THEN mainItem
                   ELSE [c \in DOMAIN mainItem \cup {Prefixed(key)} |->
                           IF c = Prefixed(key) THEN value ELSE mainItem[c]]
       IN AddFile2Fields(next, Tail(entries))

processMatchedItem(item) == AddFile2Fields(MainItem(item), item["_matchedWith"])

InitFlatten ==
  /\ fItem \in MatchedRows /\ fOut = <<>> /\ fPc = "start"
  /\ IdleEarly /\ IdleSheet /\ IdleSplit /\ IdleChannel /\ IdleSummary

Flatten ==
  /\ fPc = "start"
  /\ fOut' = processMatchedItem(fItem)
  /\ fPc' = "done"
  /\ UNCHANGED <<fItem, earlyvars, svars, pvars, qvars, tvars>>

NextFlatten == Flatten

SpecFlatten == InitFlatten /\ [][NextFlatten]_vars

----------------------------------------------------------------------------
(* claims about processMatchedItem                                          *)

\* C21 (as claimed): the returned row has no _matchedWith, every column of
\* the dataset-1 row keeps its value, and every field k of the back-reference
\* record is column File2_k, unless the row already had a column File2_k,
\* whose value is then kept; a dataset-1 column named k does not matter.
C21_MatchedPairFlattened ==
  fPc = "done" =>
    LET main == MainItem(fItem)
        entries == fItem["_matchedWith"]
    IN /\ "_matchedWith" \notin DOMAIN fOut
       /\ \A c \in DOMAIN main : c \in DOMAIN fOut /\ fOut[c] = main[c]
       /\ \A i \in 1..Len(entries) :
            Prefixed(entries[i][1]) \notin DOMAIN main =>
              /\ Prefixed(entries[i][1]) \in DOMAIN fOut
              /\ fOut[Prefixed(entries[i][1])] = entries[i][2]

----------------------------------------------------------------------------
(* processSheetData(workbook, sheetName, data, ...) on one category: the    *)
(* rows are numbered 1..sValid in their order in the category; a sheet      *)
(* records the first and the last row written to it and how many it holds,  *)
(* so it holds the rows first..last without a gap iff count = last-first+1  *)

MAX_CHUNK_SIZE == 2000
MAX_SAFE_ROWS == 50000
MAX_ERRORS == 10

\* const chunkSize = Math.max(1, Math.min(MAX_CHUNK_SIZE, Math.floor(5000000 / estimatedRowSize)))
SheetChunkSize(estimatedRowSize) ==
  LET q == 5000000 \div estimatedRowSize
      m == Min(MAX_CHUNK_SIZE, q)
  IN IF m < 1 THEN 1 ELSE m

\* validData.slice(0, MAX_SAFE_ROWS) with every row kept
Truncated_All(n) == n

\* validData.slice(0, MAX_SAFE_ROWS): the number of rows kept
Truncated(n) == Min(n, MAX_SAFE_ROWS)

\* the numbers of valid rows drawn: around the single-pass limit, the chunk
\* sizes and the ceiling
ValidRowCounts ==
  {0, 1, 2, MAX_CHUNK_SIZE, MAX_CHUNK_SIZE + 1, 2 * MAX_CHUNK_SIZE + 1,
   MAX_SAFE_ROWS, MAX_SAFE_ROWS + 1, MAX_SAFE_ROWS + 10000}

\* JSON.stringify(validData[0]).length: rows for which chunkSize is
\* MAX_CHUNK_SIZE, just below it, and half of it
RowSizes == {100, 2501, 5000}

\* the rows a..b, in order, as the rows of a sheet
Rows(a, b) == [first |-> a, last |-> b, count |-> b - a + 1]

\* rows a..b added below the rows a sheet holds
AddRows(rows, a, b) ==
  IF a > b THEN rows
  ELSE [first |-> IF rows.count = 0 THEN a ELSE rows.first, last |-> b,
        count |-> rows.count + (b - a + 1)]

\* a sheet appended to the workbook: a message row, the truncation note with
\* its two numbers (0 when there is no note), the data rows
DataSheet(message, limit, total, rows) ==
  [message |-> message, limit |-> limit, total |-> total, rows |-> rows]

InitSheet ==
  /\ sValid \in ValidRowCounts /\ sNulls \in 0..MaxNullItems /\ sRowSize \in RowSizes
  /\ sPc = "start" /\ sI = 0 /\ errorCount = 0 /\ sFailed = 0 /\ sSheets = <<>>
  /\ IdleEarly /\ IdleFlatten /\ IdleSplit /\ IdleChannel /\ IdleSummary

\* processSheetData up to its first wait: the two placeholder sheets, the
\* warning of the truncating path, the single pass (which throws when the
\* transformation or json_to_sheet throws), or the header sheet of the
\* chunked path
SheetStart ==
  /\ sPc = "start"
  /\ LET chunk == SheetChunkSize(sRowSize)
         totalChunks == Ceil(sValid, chunk)
     IN IF sValid + sNulls = 0
          THEN /\ sSheets' = <<DataSheet("No data available", 0, 0, Rows(1, 0))>>
               /\ sPc' = "returned" /\ UNCHANGED sFailed
        ELSE IF sValid = 0
          THEN /\ sSheets' = <<DataSheet("No valid data available", 0, 0, Rows(1, 0))>>
               /\ sPc' = "returned" /\ UNCHANGED sFailed
        ELSE IF sValid > MAX_SAFE_ROWS
          THEN sPc' = "truncate" /\ UNCHANGED <<sSheets, sFailed>>
        ELSE IF totalChunks <= 1 /\ sValid <= MAX_CHUNK_SIZE
          THEN \/ /\ sSheets' = <<DataSheet("", 0, 0, Rows(1, sValid))>>
                  /\ sPc' = "returned" /\ UNCHANGED sFailed
               \/ /\ sFailed' = 1 /\ sPc' = "threw" /\ UNCHANGED sSheets
        ELSE /\ sSheets' = <<DataSheet("", 0, 0, Rows(1, 0))>>
             /\ sPc' = "chunks" /\ UNCHANGED sFailed
  /\ UNCHANGED <<sValid, sNulls, sRowSize, sI, errorCount, earlyvars, fvars, pvars, qvars, tvars>>

\* the truncating path after its wait: the note sheet with the first
\* MAX_SAFE_ROWS rows, or a throw when a row cannot be transformed or added
SheetTruncated ==
  /\ sPc = "truncate"
  /\ \/ /\ sSheets' = <<DataSheet("limited", MAX_SAFE_ROWS, sValid,
                                  Rows(1, Truncated(sValid)))>>
        /\ sPc' = "returned" /\ UNCHANGED sFailed
     \/ /\ sFailed' = 1 /\ sPc' = "threw" /\ UNCHANGED sSheets
  /\ UNCHANGED <<sValid, sNulls, sRowSize, sI, errorCount, earlyvars, fvars, pvars, qvars, tvars>>

\* one chunk of the chunked path, up to the sleep after it: `failing` rows of
\* the chunk throw in processMatchedItem or in sheet_add_json, the first ones
\* of the chunk or the last ones; each raises errorCount, the one that takes
\* it past MAX_ERRORS ends the call
SheetChunk ==
  /\ sPc = "chunks"
  /\ LET chunk == SheetChunkSize(sRowSize)
         end == Min(sI + chunk, sValid)
     IN \E failing \in 0..Min(end - sI, MAX_ERRORS + 1 - errorCount), first \in BOOLEAN :
          LET fatal == errorCount + failing > MAX_ERRORS
              written == IF first THEN (IF fatal THEN <<1, 0>> ELSE <<sI + failing + 1, end>>)
                         ELSE <<sI + 1, end - failing>>
          IN /\ errorCount' = errorCount + failing
             /\ sFailed' = sFailed + failing
             /\ sSheets' = [sSheets EXCEPT ![1].rows = AddRows(@, written[1], written[2])]
             /\ sI' = IF fatal THEN sI ELSE sI + chunk
             /\ sPc' = IF fatal THEN "threw"
                       ELSE IF sI + chunk < sValid THEN "chunks" ELSE "returned"
  /\ UNCHANGED <<sValid, sNulls, sRowSize, earlyvars, fvars, pvars, qvars, tvars>>

NextSheet == SheetStart \/ SheetTruncated \/ SheetChunk

SpecSheet == InitSheet /\ [][NextSheet]_vars

----------------------------------------------------------------------------
(* claims about processSheetData                                            *)

\* C22: a call of processSheetData in which no row fails appends exactly one
\* sheet; with more than MAX_SAFE_ROWS valid rows the sheet has the note
\* naming the ceiling and the number of rows, followed by exactly the first
\* MAX_SAFE_ROWS rows in order; otherwise it has all rows and no note.
C22_RowCeiling ==
  (sPc = "returned" /\ sFailed = 0 /\ sValid > 0) =>
    /\ Len(sSheets) = 1
    /\ IF sValid > MAX_SAFE_ROWS
         THEN /\ sSheets[1].message = "limited"
              /\ sSheets[1].limit = MAX_SAFE_ROWS /\ sSheets[1].total = sValid
              /\ sSheets[1].rows = Rows(1, MAX_SAFE_ROWS)
         ELSE /\ sSheets[1].message = ""
              /\ sSheets[1].rows = Rows(1, sValid)

\* a sheet of a category with more rows than the ceiling
C22_Witness ==
  /\ sPc = "returned" /\ sFailed = 0
  /\ sValid > MAX_SAFE_ROWS /\ sSheets[1].rows.count = MAX_SAFE_ROWS

\* C24 (as claimed): whatever the size of the sheet, a failed row is skipped
\* and counted and the other rows are written in order; the call fails
\* exactly when more than MAX_ERRORS rows have failed.
C24_ErrorsRecoveredLocally ==
  /\ sPc = "threw" <=> sFailed > MAX_ERRORS
  /\ (sPc = "returned" /\ sValid > 0) =>
       sSheets[1].rows.count = Truncated(sValid) - sFailed

----------------------------------------------------------------------------
(* splitLargeExport(data, fileName, onProgress): data is the list of the    *)
(* lengths of its arrays, in the order of Object.entries; the rows of an    *)
(* array are numbered 1..length                                             *)

MAX_ROWS_PER_SHEET == 100000
MAX_SHEETS_PER_WORKBOOK == 10

\* the array lengths drawn: empty, one row, the cap, above it, and lengths
\* that give more chunks than a workbook may hold sheets
SplitLengths ==
  {0, 1, MAX_ROWS_PER_SHEET, MAX_ROWS_PER_SHEET + 1,
   MAX_SHEETS_PER_WORKBOOK * MAX_ROWS_PER_SHEET + 1,
   2 * MAX_SHEETS_PER_WORKBOOK * MAX_ROWS_PER_SHEET + 1}

SplitInputs ==
  UNION {[1..n -> SplitLengths] : n \in 1..MaxSplitKeys}
  \cup {[i \in 1..n |-> 1] : n \in {MAX_SHEETS_PER_WORKBOOK + 1, MAX_SHEETS_PER_WORKBOOK + 2}}

\* Object.values(data).reduce((sum, arr) => sum + arr.length, 0)
RECURSIVE TotalRows(_)
TotalRows(data) == IF data = <<>> THEN 0 ELSE Head(data) + TotalRows(Tail(data))

\* the next entry from k on that the loop does not skip (a non-empty array)
RECURSIVE NextSheetKey(_, _)
NextSheetKey(data, k) ==
  IF k > Len(data) \/ data[k] > 0 THEN k ELSE NextSheetKey(data, k + 1)

\* (processedSheets / totalSheets) * 100, in units of 1/totalSheets percent
SheetPercent(processed, totalSheets) == 100 * processed

\* the test before a sheet is added, with > for >=
WorkbookFull_Late(count) == count > MAX_SHEETS_PER_WORKBOOK

\* if (currentSheetCount >= MAX_SHEETS_PER_WORKBOOK)
WorkbookFull(count) == count >= MAX_SHEETS_PER_WORKBOOK

InitSplit ==
  /\ pData \in SplitInputs
  /\ pPc = "start" /\ pKey = 0 /\ pChunk = 0 /\ results = <<>> /\ currentWorkbook = <<>>
  /\ processedSheets = 0 /\ pProgress = <<>>
  /\ IdleEarly /\ IdleFlatten /\ IdleSheet /\ IdleChannel /\ IdleSummary

\* the call up to the loop: small data is not split and [] is returned
SplitStart ==
  /\ pPc = "start"
  /\ IF TotalRows(pData) <= MAX_ROWS_PER_SHEET /\ Len(pData) <= MAX_SHEETS_PER_WORKBOOK
       THEN pPc' = "returned" /\ UNCHANGED <<pKey, pProgress>>
       ELSE /\ pPc' = "loop" /\ pKey' = NextSheetKey(pData, 1)
            /\ pProgress' = <<0>>
  /\ UNCHANGED <<pData, pChunk, results, currentWorkbook, processedSheets,
                 earlyvars, fvars, svars, qvars, tvars>>

\* one sheet: chunk pChunk of a long array, or a whole array; a full workbook
\* is written to results first; then the progress report and the yield
SplitSheet ==
  /\ pPc = "loop" /\ pKey <= Len(pData)
  /\ LET length == pData[pKey]
         long == length > MAX_ROWS_PER_SHEET
         chunks == IF long THEN Ceil(length, MAX_ROWS_PER_SHEET) ELSE 1
         start == pChunk * MAX_ROWS_PER_SHEET
         end == IF long THEN Min(start + MAX_ROWS_PER_SHEET, length) ELSE length
         sheet == [key |-> pKey, part |-> pChunk + 1, of |-> chunks,
                   first |-> start + 1, last |-> end]
         flush == WorkbookFull(Len(currentWorkbook))
     IN /\ results' = IF flush THEN Append(results, currentWorkbook) ELSE results
        /\ currentWorkbook' = IF flush THEN <<sheet>> ELSE Append(currentWorkbook, sheet)
        /\ processedSheets' = processedSheets + 1
        /\ pProgress' = Append(pProgress, SheetPercent(processedSheets + 1, Len(pData)))
        /\ IF pChunk + 1 < chunks
             THEN pChunk' = pChunk + 1 /\ UNCHANGED pKey
             ELSE pChunk' = 0 /\ pKey' = NextSheetKey(pData, pKey + 1)
  /\ UNCHANGED <<pData, pPc, earlyvars, fvars, svars, qvars, tvars>>

\* after the loop: the last workbook is written if it has sheets, "Split
\* complete" is reported and results returned
SplitFinish ==
  /\ pPc = "loop" /\ pKey > Len(pData)
  /\ results' = IF Len(currentWorkbook) > 0 THEN Append(results, currentWorkbook) ELSE results
  /\ pProgress' = Append(pProgress, 100 * Len(pData))
  /\ pPc' = "returned"
  /\ UNCHANGED <<pData, pKey, pChunk, currentWorkbook, processedSheets,
                 earlyvars, fvars, svars, qvars, tvars>>

NextSplit == SplitStart \/ SplitSheet \/ SplitFinish

SpecSplit == InitSplit /\ [][NextSplit]_vars

----------------------------------------------------------------------------
(* claims about splitLargeExport                                            *)

\* the sheets of the files written so far, in output order
RECURSIVE SheetsOf(_)
SheetsOf(files) == IF files = <<>> THEN <<>> ELSE Head(files) \o SheetsOf(Tail(files))

\* the sheets of one category, in output order
RECURSIVE SheetsOfKey(_, _)
SheetsOfKey(sheets, k) ==
  IF sheets = <<>> THEN <<>>
  ELSE (IF Head(sheets).key = k THEN <<Head(sheets)>> ELSE <<>>) \o SheetsOfKey(Tail(sheets), k)

\* the sheets hold the rows 1..length, each once, in order
CoversInOrder(sheets, length) ==
  /\ sheets # <<>>
  /\ sheets[1].first = 1 /\ sheets[Len(sheets)].last = length
  /\ \A i \in 1..Len(sheets) - 1 : sheets[i + 1].first = sheets[i].last + 1

\* C23 (as claimed, for splitLargeExport): the percent values passed to
\* onProgress lie between 0 and 100 and never decrease. (The values are
\* logged in units of 1/totalSheets percent.)
C23_ExportProgressMonotone ==
  \A i \in 1..Len(pProgress) :
     /\ 0 <= pProgress[i] /\ pProgress[i] <= 100 * Len(pData)
     /\ i > 1 => pProgress[i - 1] <= pProgress[i]

\* C25: when splitLargeExport has split its input, every file holds between
\* 1 and MAX_SHEETS_PER_WORKBOOK sheets, every sheet holds between 1 and
\* MAX_ROWS_PER_SHEET rows, and the sheets of each non-empty category, in
\* output order, hold exactly its rows in their order.
C25_SplitKeepsCapsAndRows ==
  /\ \A f \in 1..Len(results) :
       /\ Len(results[f]) \in 1..MAX_SHEETS_PER_WORKBOOK
       /\ \A i \in 1..Len(results[f]) :
            results[f][i].last - results[f][i].first + 1 \in 1..MAX_ROWS_PER_SHEET
  /\ (pPc = "returned" /\ pProgress # <<>>) =>
       \A k \in 1..Len(pData) :
          pData[k] > 0 => CoversInOrder(SheetsOfKey(SheetsOf(results), k), pData[k])

\* a split into several files, one of them full, with an array in several sheets
C25_Witness ==
  /\ pPc = "returned" /\ Len(results) >= 2
  /\ \E f \in 1..Len(results) : Len(results[f]) = MAX_SHEETS_PER_WORKBOOK
  /\ \E f \in 1..Len(results) : \E i \in 1..Len(results[f]) : results[f][i].of > 1

----------------------------------------------------------------------------
(* getSheetDataStreamed and messageChannel on the file worker of getWorker: *)
(* one call, or two calls at the same time on two files. The payload of a   *)
(* dataChunk is <<file, number of the chunk>>; the messages themselves do   *)
(* not say which call they answer.                                          *)

\* what the worker posts for one loadData request: progress reports and the
\* chunks of the sheet, then dataEnd; or a progress report and an error
WorkerScripts(file) ==
  {<<[type |-> "progress"], [type |-> "error", originalType |-> "loadData"]>>}
  \cup {<<[type |-> "progress"]>>
        \o [i \in 1..2 * n |-> IF i % 2 = 1 THEN [type |-> "dataChunk", data |-> <<file, (i + 1) \div 2>>]
                               ELSE [type |-> "progress"]]
        \o <<[type |-> "progress"], [type |-> "dataEnd"]>> : n \in 1..MaxStreamChunks}

\* messageHandler without messageQueue.push
Enqueue_Drop(queue, event) == queue

\* messageHandler when no promise is pending: messageQueue.push(event)
Enqueue(queue, event) == Append(queue, event)

\* resolveNextMessage is set while the generator awaits the next message
resolveNextMessage(c) == qPc[c] = "waiting"

\* the loops of messageChannel and getSheetDataStreamed on the queued
\* messages, up to the next yield, return or throw, or to an empty queue
RECURSIVE Consume(_)
Consume(queue) ==
  IF queue = <<>> THEN [pc |-> "waiting", queue |-> <<>>, out |-> <<>>]
  ELSE LET message == Head(queue)
       IN IF message.type = "dataChunk"
            THEN [pc |-> "yielded", queue |-> Tail(queue), out |-> <<message.data>>]
          ELSE IF message.type = "dataEnd"
            THEN [pc |-> "done", queue |-> Tail(queue), out |-> <<>>]
          ELSE IF message.type = "error" /\ message.originalType \in {"loadData", "none"}
            THEN [pc |-> "threw", queue |-> Tail(queue), out |-> <<>>]
          ELSE Consume(Tail(queue))

\* the state of call c after its generator has run on `queue`; the finally
\* block of messageChannel removes the listeners on return and on throw
AfterConsume(c, queue) ==
  LET r == Consume(queue)
  IN [pc |-> r.pc, queue |-> r.queue, yielded |-> qYielded[c] \o r.out,
      listening |-> r.pc \notin {"done", "threw"}]

\* the calls in progress: n calls, each on a file of its own
InitCalls(n) ==
  /\ qCalls = 1..n
  /\ qScript \in [qCalls -> UNION {WorkerScripts(f) : f \in qCalls}]
  /\ \A c \in qCalls : qScript[c] \in WorkerScripts(c)
  /\ qPc = [c \in qCalls |-> "created"]
  /\ qSent = [c \in qCalls |-> 0]
  /\ qWire = <<>>
  /\ messageQueue = [c \in qCalls |-> <<>>]
  /\ qListeners = {}
  /\ qYielded = [c \in qCalls |-> <<>>]
  /\ IdleEarly /\ IdleFlatten /\ IdleSheet /\ IdleSplit /\ IdleSummary

\* a single call
InitStream == InitCalls(1)

\* two calls at the same time
InitChannel == InitCalls(2)

\* the first next() on the generator of call c: worker.postMessage(loadData),
\* the two listeners are added, the generator awaits the first message
StreamCall(c) ==
  /\ c \in qCalls /\ qPc[c] = "created"
  /\ qPc' = [qPc EXCEPT ![c] = "waiting"]
  /\ qListeners' = qListeners \cup {c}
  /\ UNCHANGED <<qCalls, qScript, qSent, qWire, messageQueue, qYielded,
                 earlyvars, fvars, svars, pvars, tvars>>

\* the worker posts the next message of the request of call c
WorkerPost(c) ==
  /\ c \in qCalls /\ qPc[c] # "created" /\ qSent[c] < Len(qScript[c])
  /\ qWire' = Append(qWire, qScript[c][qSent[c] + 1])
  /\ qSent' = [qSent EXCEPT ![c] = @ + 1]
  /\ UNCHANGED <<qCalls, qScript, qPc, messageQueue, qListeners, qYielded,
                 earlyvars, fvars, svars, pvars, tvars>>

\* one message event on the main thread: every registered messageHandler
\* gets it; a generator that awaits it runs on until it yields, returns,
\* throws or awaits again
Deliver ==
  /\ qWire # <<>>
  /\ LET event == Head(qWire)
         after == [c \in qCalls |->
                     IF c \notin qListeners
                       THEN [pc |-> qPc[c], queue |-> messageQueue[c],
                             yielded |-> qYielded[c], listening |-> FALSE]
                     ELSE IF resolveNextMessage(c) THEN AfterConsume(c, <<event>>)
                     ELSE [pc |-> qPc[c], queue |-> Enqueue(messageQueue[c], event),
                           yielded |-> qYielded[c], listening |-> TRUE]]
     IN /\ qPc' = [c \in qCalls |-> after[c].pc]
        /\ messageQueue' = [c \in qCalls |-> after[c].queue]
        /\ qYielded' = [c \in qCalls |-> after[c].yielded]
        /\ qListeners' = {c \in qCalls : after[c].listening}
  /\ qWire' = Tail(qWire)
  /\ UNCHANGED <<qCalls, qScript, qSent, earlyvars, fvars, svars, pvars, tvars>>

\* the consumer of call c asks for the next chunk
Pull(c) ==
  /\ c \in qCalls /\ qPc[c] = "yielded"
  /\ LET after == AfterConsume(c, messageQueue[c])
     IN /\ qPc' = [qPc EXCEPT ![c] = after.pc]
        /\ messageQueue' = [messageQueue EXCEPT ![c] = after.queue]
        /\ qYielded' = [qYielded EXCEPT ![c] = after.yielded]
        /\ qListeners' = IF after.listening THEN qListeners ELSE qListeners \ {c}
  /\ UNCHANGED <<qCalls, qScript, qSent, qWire, earlyvars, fvars, svars, pvars, tvars>>

NextChannel ==
  \/ \E c \in {1, 2} : StreamCall(c)
  \/ \E c \in {1, 2} : WorkerPost(c)
  \/ Deliver
  \/ \E c \in {1, 2} : Pull(c)

SpecStream == InitStream /\ [][NextChannel]_vars

SpecChannel == InitChannel /\ [][NextChannel]_vars

----------------------------------------------------------------------------
(* claims about the row stream                                              *)

\* the payloads of the dataChunk messages among the first n of a script
RECURSIVE PayloadsOf(_, _)
PayloadsOf(script, n) ==
  IF n = 0 THEN <<>>
  ELSE PayloadsOf(script, n - 1)
       \o (IF script[n].type = "dataChunk" THEN <<script[n].data>> ELSE <<>>)

\* C26 (as claimed): with two calls in progress at the same time, each call
\* yields only chunks of its own file, and a call that completes has yielded
\* what it yields when it runs alone, the chunks of its file in order.
C26_ConcurrentCallsIsolated ==
  \A c \in qCalls :
     /\ \A i \in 1..Len(qYielded[c]) : qYielded[c][i][1] = c
     /\ qPc[c] = "done" => qYielded[c] = PayloadsOf(qScript[c], Len(qScript[c]))

\* C29: a single call yields exactly the payloads of the dataChunk messages
\* the worker has posted, each once and in posting order; it completes when
\* dataEnd is received, having yielded every chunk, and throws when the
\* worker's error message is received; on both its listeners are removed;
\* until then it is never stuck.
C29_StreamLosesNothing ==
  LET script == qScript[1]
      posted == PayloadsOf(script, qSent[1])
      ends == script[Len(script)].type
  IN /\ Len(qYielded[1]) <= Len(posted)
     /\ qYielded[1] = SubSeq(posted, 1, Len(qYielded[1]))
     /\ qPc[1] = "done" =>
          (ends = "dataEnd" /\ qYielded[1] = PayloadsOf(script, Len(script)))
     /\ qPc[1] = "threw" => ends = "error"
     /\ qPc[1] \in {"done", "threw"} <=> (qPc[1] # "created" /\ 1 \notin qListeners)
     /\ qPc[1] \in {"done", "threw"} \/ ENABLED NextChannel

\* a single call that has completed after the chunks were queued while the
\* consumer was busy with the first one
C29_Witness ==
  /\ qCalls = {1} /\ qPc[1] = "done" /\ Len(qYielded[1]) = MaxStreamChunks

----------------------------------------------------------------------------
(* processFiles over the rows of two sheets: detector, matcher, summary    *)

\* the cell rows of a sheet with the header row a, _a: the cell of column a
\* is blank (Null) or holds text, the cell of column _a holds text
SheetRows == {[a |-> v, _a |-> Str(<<"x">>)] : v \in {Null, Str(<<"x">>), Str(<<"X">>)}}

\* the row object made of a cell row. Array form: sheet_to_json without
\* defval gives no key for a blank cell. Streaming form: the worker converts
\* with defval: null and assigns rowObject[header] for every header
RowObject(form, row) ==
  IF form = "array" THEN [c \in {k \in DOMAIN row : row[k] # Null} |-> row[c]] ELSE row

\* the rows of file f as processFiles receives them
Data(f) == [i \in 1..Len(tRows[f]) |-> RowObject(tForm, tRows[f][i])]

\* compareFilesWithMappings(data1, data2, mappings) for data of at most
\* chunkSize items: each of its two loops runs once
compareFilesWithMappings(data1, data2, mappings) ==
  LET st == ArrayCompare([map |-> ArrayBuildMap(<<>>, data2, 0, mappings),
                          inFile2Only |-> data2, matched |-> <<>>, inFile1Only |-> <<>>],
                         data1, mappings)
  IN [map |-> st.map, all |-> <<>>, matched |-> st.matched,
      inFile1Only |-> st.inFile1Only, inFile2Only |-> FilterNotNull(st.inFile2Only)]

\* a summary whose totals are the counts at the time
\* findDuplicatesInFileStream returned, before any chunk was consumed
Summary_CountAtReturn(form, total, dup, cmp) ==
  [totalInFile1 |-> IF form = "stream" THEN 0 ELSE total[1],
   totalInFile2 |-> IF form = "stream" THEN 0 ELSE total[2],
   matched |-> Len(cmp.matched),
   inFile1Only |-> Len(cmp.inFile1Only),
   inFile2Only |-> Len(cmp.inFile2Only),
   duplicatesInFile1 |-> Len(dup[1].duplicates),
   duplicatesInFile2 |-> Len(dup[2].duplicates)]

\* the summary of the result; total is workbookNData.length in the array
\* form and fileNTotalCountGetter() in the streaming form
Summary(form, total, dup, cmp) ==
  [totalInFile1 |-> total[1],
   totalInFile2 |-> total[2],
   matched |-> Len(cmp.matched),
   inFile1Only |-> Len(cmp.inFile1Only),
   inFile2Only |-> Len(cmp.inFile2Only),
   duplicatesInFile1 |-> Len(dup[1].duplicates),
   duplicatesInFile2 |-> Len(dup[2].duplicates)]

EmptyCmp == [map |-> <<>>, all |-> <<>>, matched |-> <<>>, inFile1Only |-> <<>>,
             inFile2Only |-> <<>>]

InitSummary ==
  /\ tForm \in {"array", "stream"}
  /\ tRows \in (UNION {[1..k -> SheetRows] : k \in 0..MaxRows})
                \X (UNION {[1..k -> SheetRows] : k \in 0..MaxItems})
  /\ tMaps \in {<<Mapping("a", "a", e)>> : e \in BOOLEAN}
  /\ tPc = "start" /\ tPos = <<0, 0>> /\ tCount = <<0, 0>>
  /\ tDup = <<EmptyDup, EmptyDup>> /\ tCmp = EmptyCmp /\ summary = <<>>
  /\ IdleEarly /\ IdleFlatten /\ IdleSheet /\ IdleSplit /\ IdleChannel

\* processFiles up to the first duplicate search. Array form: getSheetData
\* rejects a sheet without data rows, then the mappings are validated against
\* the first row objects. Streaming form: the mappings are validated against
\* the header rows, and the streams are created but not yet read
SumStart ==
  /\ tPc = "start"
  /\ tPc' = IF tForm = "stream" THEN "file2"
            ELSE IF Len(tRows[1]) = 0 \/ Len(tRows[2]) = 0 THEN "rejected"
            ELSE IF ValidationError(DOMAIN Data(1)[1], DOMAIN Data(2)[1], tMaps) # ""
            THEN "rejected"
            ELSE "dedup1"
  /\ UNCHANGED <<tForm, tRows, tMaps, tPos, tDup, tCount, tCmp, summary,
                 earlyvars, fvars, svars, pvars, qvars>>

\* array form: findDuplicatesInFile(workbookNData)
SumArrayDedup(f) ==
  /\ tForm = "array" /\ tPc = (IF f = 1 THEN "dedup1" ELSE "dedup2")
  /\ tDup' = [tDup EXCEPT ![f] = findDuplicatesInFile(Data(f))]
  /\ tPos' = [tPos EXCEPT ![f] = Len(tRows[f])]
  /\ tPc' = IF f = 1 THEN "dedup2" ELSE "compare"
  /\ UNCHANGED <<tForm, tRows, tMaps, tCount, tCmp, summary,
                 earlyvars, fvars, svars, pvars, qvars>>

\* array form: compareFilesWithMappings(uniqueFile1Items, uniqueFile2Items)
SumArrayCompare ==
  /\ tForm = "array" /\ tPc = "compare"
  /\ tCmp' = compareFilesWithMappings(tDup[1].unique, tDup[2].unique, tMaps)
  /\ tPc' = "summary"
  /\ UNCHANGED <<tForm, tRows, tMaps, tPos, tDup, tCount, summary,
                 earlyvars, fvars, svars, pvars, qvars>>

\* streaming form: compareUniqueItemStreams pulls the unique-item stream of
\* file f (file 2 first), which takes the next chunk of n rows from its data
\* stream, classifies it and, when the chunk holds unique items, yields them
\* to the loop body of the matcher
SumStreamChunk(n) ==
  /\ tForm = "stream" /\ tPc \in {"file2", "file1"}
  /\ LET f == IF tPc = "file2" THEN 2 ELSE 1
         chunk == SubSeq(Data(f), tPos[f] + 1, tPos[f] + n)
         st == StreamChunk([tDup[f] EXCEPT !.unique = <<>>], chunk)
     IN /\ n <= Len(tRows[f]) - tPos[f]
        /\ tCount' = [tCount EXCEPT ![f] = @ + Len(chunk)]
        /\ tDup' = [tDup EXCEPT ![f] = st]
        /\ tPos' = [tPos EXCEPT ![f] = @ + n]
        /\ tCmp' = IF f = 2
                   THEN LET b == StreamBuildMap([map |-> tCmp.map, all |-> tCmp.all],
                                                st.unique, tMaps)
                        IN [tCmp EXCEPT !.map = b.map, !.all = b.all]
                   ELSE LET c == StreamCompare([map |-> tCmp.map, all |-> tCmp.all,
                                                matched |-> tCmp.matched,
                                                inFile1Only |-> tCmp.inFile1Only],
                                               st.unique, tMaps)
                        IN [tCmp EXCEPT !.map = c.map, !.all = c.all,
                                        !.matched = c.matched,
                                        !.inFile1Only = c.inFile1Only]
  /\ UNCHANGED <<tForm, tRows, tMaps, tPc, summary, earlyvars, fvars, svars, pvars, qvars>>

\* streaming form: the data stream of file f ends. The worker answers a
\* sheet without data rows with an error, which getSheetDataStreamed throws.
\* After file 2 the matcher turns to file 1; after file 1 it filters the
\* unclaimed items of file 2 and returns
SumStreamEnd ==
  /\ tForm = "stream" /\ tPc \in {"file2", "file1"}
  /\ LET f == IF tPc = "file2" THEN 2 ELSE 1
     IN /\ tPos[f] = Len(tRows[f])
        /\ tPc' = IF Len(tRows[f]) = 0 THEN "rejected"
                  ELSE IF f = 2 THEN "file1" ELSE "summary"
        /\ tCmp' = IF f = 1 /\ Len(tRows[f]) > 0
                   THEN [tCmp EXCEPT !.inFile2Only = FilterNotNull(tCmp.all)]
                   ELSE tCmp
  /\ UNCHANGED <<tForm, tRows, tMaps, tPos, tDup, tCount, summary,
                 earlyvars, fvars, svars, pvars, qvars>>

\* the summary is created and the result returned
SumFinish ==
  /\ tPc = "summary"
  /\ summary' = Summary(tForm,
                        IF tForm = "array" THEN <<Len(Data(1)), Len(Data(2))>> ELSE tCount,
                        tDup, tCmp)
  /\ tPc' = "done"
  /\ UNCHANGED <<tForm, tRows, tMaps, tPos, tDup, tCount, tCmp,
                 earlyvars, fvars, svars, pvars, qvars>>

NextSummary ==
  \/ SumStart
  \/ \E f \in {1, 2} : SumArrayDedup(f)
  \/ SumArrayCompare
  \/ \E n \in 1..MaxChunkSize : SumStreamChunk(n)
  \/ SumStreamEnd
  \/ SumFinish

SpecSummary == InitSummary /\ [][NextSummary]_vars

(* ---- claims about the summary ---- *)

\* the rows of file f that the duplicate search drops for an empty key
Dropped(f) ==
  Cardinality({i \in 1..Len(Data(f)) : createCompositeKeyFromAllColumns(Data(f)[i]) = <<>>})

\* C28: in every result returned by processFiles the totals of the summary
\* are the row counts of the two sheets, the duplicate counts are those of
\* the completed duplicate searches, and for each file the total is the sum
\* of its duplicates, its matched records, its unmatched records and its rows
\* dropped for an empty duplicate key.
C28_RowConservation ==
  tPc = "done" =>
    /\ tPos = <<Len(tRows[1]), Len(tRows[2])>>
    /\ summary.totalInFile1 = Len(tRows[1]) /\ summary.totalInFile2 = Len(tRows[2])
    /\ summary.duplicatesInFile1 = Len(tDup[1].duplicates)
    /\ summary.duplicatesInFile2 = Len(tDup[2].duplicates)
    /\ summary.matched = Len(tCmp.matched)
    /\ summary.inFile1Only = Len(tCmp.inFile1Only)
    /\ summary.inFile2Only = Len(tCmp.inFile2Only)
    /\ summary.totalInFile1 =
         summary.duplicatesInFile1 + summary.matched + summary.inFile1Only + Dropped(1)
    /\ summary.totalInFile2 =
         summary.duplicatesInFile2 + summary.matched + summary.inFile2Only + Dropped(2)

\* a returned result with a duplicate, a matched and a dropped row of file 1
C28_Witness ==
  /\ tPc = "done" /\ summary.totalInFile1 = 3
  /\ summary.duplicatesInFile1 = 1 /\ summary.matched = 1 /\ Dropped(1) = 1

====
